---- MODULE Spec2Model ----
(***************************************************************************)
(* Datatip manager of nuclide (DatatipManager.js, carried in the source    *)
(* tree as pkg/nuclide-devices/lib/ui/RootPanel.js lines 162-931).         *)
(*                                                                         *)
(*   SpecRace : one call of getTopDatatipAndProvider, provider promises    *)
(*              settling in any order.                                     *)
(*   Spec     : one DatatipManagerForEditor (an editor session) driven by  *)
(*              editor events, timers, fetch completions and pinned tips.  *)
(*   SpecRegistry : one race while providers are added and removed.        *)
(*   SpecBurst, SpecHide, SpecToggle : the session under the events of the *)
(*              fetch debounce, the hide debounce and the toggle command.  *)
(*   SpecManager : the DatatipManager, its editors, sessions and providers.*)
(*   SpecSessions : the sessions of several editors under fetches, blur    *)
(*              and the toggle command.                                    *)
(*   SpecOverlay, SpecKeys, SpecPin : one session under the events of the  *)
(*              tooltip element, of the keyboard and of pinning.           *)
(*   SpecSettle : fetches that settle eventually, with any datatips.       *)
(*   SpecStale : two fetches in flight that resume in any order.           *)
(*   SpecConfig : mouse moves while the fetch debounce delay setting       *)
(*              changes.                                                   *)
(*                                                                         *)
(* Diagnostics UI of nuclide (carried in the source tree as                *)
(* unnamed/part_000).                                                      *)
(*                                                                         *)
(*   SpecShortcuts : KeyboardShortcuts under diagnostics updates and the   *)
(*              go-to commands.                                            *)
(*   SpecActivation : Activation under consumeDiagnosticUpdates calls and  *)
(*              disposals of the disposables they return.                  *)
(*                                                                         *)
(* Time is in milliseconds.  Points are columns of one buffer line; the    *)
(* editor has no soft wraps or folds, so a screen position and the buffer  *)
(* position it maps to have the same column.                               *)
(***************************************************************************)
EXTENDS Integers, Sequences, FiniteSets, TLC

VARIABLES
  raceProviders,  \* the providers array handed to getTopDatatipAndProvider
  racePc,         \* "idle" | "running" | "done"
  racePromises,   \* datatipPromises: per provider Pending or the settled value
  raceIndex,      \* asyncFind: index of the promise being awaited
  raceResult,     \* value the race resolved to (Null or a result record)
  raceInvoked,    \* the providers in the order invoke() was called, each
                  \* held by the closure of its map callback
  raceLog         \* logger.error entries, oldest first

VARIABLES
  session,        \* the fields of one DatatipManagerForEditor
  inflight,       \* suspended _startFetching calls, oldest first
  promises,       \* plain-provider lookup promises by id
  pinnedTips,     \* the PinnedDatatip objects created for this editor
  cursor,         \* the editor's cursor position
  now,            \* performance.now()
  disposed,       \* dispose() has run: the subscriptions are released
  featureConfig,  \* the two nuclide-datatip settings featureConfig.get returns
  replacedTimers, \* deadlines of the pending timers of the debounced fetch
                  \* starters that _setStartFetchingDebounce has replaced,
                  \* oldest first
  events          \* number of events delivered so far

\* History variables, written only by the specifications that use them.
VARIABLES
  burst,          \* SpecBurst: the current burst of mouse moves
  hover,          \* SpecHide: the last event delivered and what it met
  toggled,        \* SpecToggle: the last toggle command and the oldest
                  \* hide/cancel request with fetches still in flight
  lastEvent,      \* SpecOverlay, SpecKeys: the last event delivered, its
                  \* arguments and the session it met
  resolved        \* SpecStale: the suspended fetches in the order they
                  \* were started and the last two that resumed

histVars == <<burst, hover, toggled, lastEvent, resolved>>

VARIABLES
  editorState,     \* per text editor: "new" | "open" | "destroyed"
  managers,        \* per editor the DatatipManagerForEditor made for it (a
                   \* context [s, inflight, promises]) or Null
  _editorManagers, \* the keys of the map; the value of key e is managers[e]
  _subscriptions,  \* of the DatatipManager: disposed or not, and the editors
                   \* whose dispose closure it holds
  _datatipProviders,          \* the array shared with every session
  _modifierDatatipProviders,  \* the same for the modifier providers
  observed         \* SpecManager: calls of dispose() per session, PinnedDatatip
                   \* objects made per editor, the last call of
                   \* createPinnedDataTip and the last fetches per editor

VARIABLES
  shortcuts,       \* the fields of one KeyboardShortcuts of the diagnostics
                   \* package: _diagnostics, _index, _traceIndex
  activation       \* the diagnostics Activation: the value of
                   \* _diagnosticUpdaters, the disposables that
                   \* consumeDiagnosticUpdates has returned, and whether an
                   \* invariant() has thrown

diagVars == <<shortcuts, activation>>

managerVars == <<editorState, managers, _editorManagers, _subscriptions,
                 _datatipProviders, _modifierDatatipProviders, observed>>

sessionVars == <<session, inflight, promises, pinnedTips, cursor, now,
                 disposed, featureConfig, replacedTimers, events>>

raceVars == <<raceProviders, racePc, racePromises, raceIndex, raceResult,
              raceInvoked, raceLog>>

(***************************************************************************)
(* Bounds                                                                  *)
(***************************************************************************)
MaxProviders == 2
MaxColumn == 1     \* the buffer line has columns 0..MaxColumn
MaxEvents == 5     \* events (clock steps included) delivered under Spec
MaxBurstEvents == 6  \* the same under SpecBurst
MaxHideEvents == 6   \* the same under SpecHide
MaxToggleEvents == 5 \* the same under SpecToggle
MaxRegistryEvents == 4  \* providers added and removed under SpecRegistry
MaxEditors == 2    \* text editors the workspace opens
MaxManagerEvents == 5  \* events delivered under SpecManager
MaxSessionEvents == 5  \* events delivered under SpecOverlay
MaxKeyEvents == 4      \* events delivered under SpecKeys
MaxPinEvents == 7      \* events delivered under SpecPin
MaxSettleEvents == 3   \* input events delivered under SpecSettle
MaxStaleEvents == 5    \* events delivered under SpecStale
MaxConfigEvents == 7   \* events delivered under SpecConfig
MaxDiagnostics == 2    \* messages of one diagnostics update
MaxTraces == 2         \* traces of one diagnostic
MaxShortcutEvents == 5 \* events delivered under SpecShortcuts
MaxUpdaters == 2       \* diagnostic updaters offered to the Activation
MaxActivationEvents == 6  \* calls delivered under SpecActivation
MaxInFlight == 2   \* _startFetching calls suspended at the same time
MaxPinned == 1     \* PinnedDatatip objects per editor
MaxWheelX == 40    \* wheel events stop once _cumulativeWheelX would pass it

(***************************************************************************)
(* Values                                                                  *)
(***************************************************************************)
\* null/undefined where an object is expected, and the two states of a
\* promise that hold no value.
Null == [null |-> TRUE]
Pending == [pending |-> TRUE]
Rejected == [rejected |-> TRUE]

\* providerName of a provider that was registered without one.
NoName == "undefined"

Priorities == {0, 5, 10}

\* What the invocation of a provider does: resolves to null, throws
\* synchronously, returns a rejected promise, or resolves to a datatip.
Outcomes == {"resolveNull", "throws", "rejects", "resolveDatatip"}

ProviderAt(i) ==
  [index : {i},
   providerName : {NoName, "P" \o ToString(i)},
   inclusionPriority : Priorities,
   validForScope : BOOLEAN,
   outcome : Outcomes]

(***************************************************************************)
(* Pure helpers of the race                                                *)
(***************************************************************************)
\* getProviderName: the label used in logs; a provider without a name is
\* labelled 'unknown'.
getProviderName(provider) ==
  IF provider.providerName = NoName THEN "unknown" ELSE provider.providerName

\* The error entry getProviderName writes for a nameless provider.
NoNameLog(provider) ==
  IF provider.providerName = NoName
    THEN <<[kind |-> "noName", name |-> "unknown", provider |-> provider.index]>>
    ELSE <<>>

FailureLog(provider) ==
  [kind |-> "datatipError", name |-> getProviderName(provider),
   provider |-> provider.index]

\* Array.prototype.filter with the predicate of filterProvidersByScopeName.
RECURSIVE FilterApplicable(_)
FilterApplicable(providers) ==
  IF providers = <<>> THEN <<>>
  ELSE LET p == Head(providers)
           rest == FilterApplicable(Tail(providers))
       IN IF p.inclusionPriority > 0 /\ p.validForScope
            THEN <<p>> \o rest ELSE rest

\* Array.prototype.sort with the comparator b.priority - a.priority, as a
\* stable insertion sort (equal priorities keep their relative order).
RECURSIVE InsertByPriority_unstable(_, _)
InsertByPriority_unstable(p, sorted) ==
  IF sorted = <<>> THEN <<p>>
  ELSE IF Head(sorted).inclusionPriority > p.inclusionPriority
         THEN <<Head(sorted)>> \o InsertByPriority_unstable(p, Tail(sorted))
         ELSE <<p>> \o sorted

RECURSIVE InsertByPriority(_, _)
InsertByPriority(p, sorted) ==
  IF sorted = <<>> THEN <<p>>
  ELSE IF Head(sorted).inclusionPriority >= p.inclusionPriority
         THEN <<Head(sorted)>> \o InsertByPriority(p, Tail(sorted))
         ELSE <<p>> \o sorted

RECURSIVE SortByPriority(_)
SortByPriority(providers) ==
  IF providers = <<>> THEN <<>>
  ELSE InsertByPriority(providers[Len(providers)],
                        SortByPriority(SubSeq(providers, 1, Len(providers) - 1)))

filterProvidersByScopeName(providers) ==
  SortByPriority(FilterApplicable(providers))

(***************************************************************************)
(* getTopDatatipAndProvider as a process                                   *)
(***************************************************************************)
Datatip(provider) == [payload |-> provider.index]

RaceValue(provider) == [provider |-> provider, datatip |-> Datatip(provider)]

\* The synchronous part of the async callback of providers.map: the name is
\* looked up, invoke(provider) is called, and a synchronous throw lands in
\* the catch block, which logs it and makes the callback return null.
InvokeSync(provider) ==
  IF provider.outcome = "throws"
    THEN [promise |-> Null,
          log |-> NoNameLog(provider) \o <<FailureLog(provider)>>]
    ELSE [promise |-> Pending, log |-> NoNameLog(provider)]

\* The continuation without the catch block: a rejection escapes.
SettleAsync_noCatch(provider) ==
  CASE provider.outcome = "resolveDatatip" ->
         [promise |-> RaceValue(provider), log |-> <<>>]
    [] provider.outcome = "resolveNull" ->
         [promise |-> Null, log |-> <<>>]
    [] provider.outcome = "rejects" ->
         [promise |-> Rejected, log |-> <<>>]

\* The continuation of the callback after `await invoke(provider)`.
SettleAsync(provider) ==
  CASE provider.outcome = "resolveDatatip" ->
         [promise |-> RaceValue(provider), log |-> <<>>]
    [] provider.outcome = "resolveNull" ->
         [promise |-> Null, log |-> <<>>]
    [] provider.outcome = "rejects" ->
         [promise |-> Null, log |-> <<FailureLog(provider)>>]

\* The list the callbacks are mapped over (line 285 maps `providers`, the
\* array the function was given, not filteredDatatipProviders).
MappedProviders(providers) == providers

RECURSIVE LogOfInvocations(_)
LogOfInvocations(providers) ==
  IF providers = <<>> THEN <<>>
  ELSE InvokeSync(Head(providers)).log \o LogOfInvocations(Tail(providers))

RaceInit ==
  /\ raceProviders = <<>>
  /\ racePc = "idle"
  /\ racePromises = <<>>
  /\ raceIndex = 0
  /\ raceResult = Null
  /\ raceInvoked = <<>>
  /\ raceLog = <<>>

\* DatatipManager.addProvider: the provider is pushed onto the array the
\* races are given.
addProvider(providers, provider) == Append(providers, provider)

AddProvider(provider) ==
  /\ Len(raceProviders) < MaxProviders
  /\ raceProviders' = addProvider(raceProviders, provider)
  /\ UNCHANGED <<racePc, racePromises, raceIndex, raceResult, raceInvoked,
                 raceLog>>

\* arrayRemove(array, element): the first occurrence is spliced out.
RECURSIVE arrayRemove(_, _)
arrayRemove(array, element) ==
  IF array = <<>> THEN <<>>
  ELSE IF Head(array) = element THEN Tail(array)
  ELSE <<Head(array)>> \o arrayRemove(Tail(array), element)

\* The handle addProvider returned for the k-th provider of the array is
\* disposed.
RemoveProvider(k) ==
  /\ k \in 1..Len(raceProviders)
  /\ raceProviders' = arrayRemove(raceProviders, raceProviders[k])
  /\ UNCHANGED <<racePc, racePromises, raceIndex, raceResult, raceInvoked,
                 raceLog>>

\* The provider objects are told apart by their index: one that is added
\* gets the least index no provider in the array or in a running race has.
UsedIndices ==
  {raceProviders[k].index : k \in 1..Len(raceProviders)}
    \cup {raceInvoked[k].index : k \in 1..Len(raceInvoked)}

FreshIndex ==
  CHOOSE i \in 1..(2 * MaxProviders + 1) :
    /\ i \notin UsedIndices
    /\ \A j \in 1..(2 * MaxProviders + 1) : j \notin UsedIndices => i <= j

\* The early return taken only for an empty array.
ReturnsEarly_onEmptyArray(providers) == Len(providers) = 0

\* The test of the early return: filteredDatatipProviders.length === 0.
ReturnsEarly(providers) == Len(filterProvidersByScopeName(providers)) = 0

\* Lines 276-310 up to the first suspension: filter, early return, map.
RaceStart ==
  /\ racePc = "idle"
  /\ IF ReturnsEarly(raceProviders)
       THEN /\ racePc' = "done"
            /\ raceResult' = Null
            /\ UNCHANGED <<racePromises, raceIndex, raceInvoked, raceLog>>
       ELSE LET mapped == MappedProviders(raceProviders)
            IN /\ racePc' = "running"
               /\ racePromises' = [i \in 1..Len(mapped) |->
                                     InvokeSync(mapped[i]).promise]
               /\ raceInvoked' = mapped
               /\ raceLog' = LogOfInvocations(mapped)
               /\ raceIndex' = 1
               /\ UNCHANGED raceResult
  /\ UNCHANGED raceProviders

\* The provider the i-th map callback reads after its await, taken from the
\* array as it is then and not from the closure.
CapturedProvider_live(i) ==
  IF i <= Len(raceProviders) /\ raceProviders[i].outcome # "throws"
    THEN raceProviders[i] ELSE raceInvoked[i]

\* The provider the i-th map callback holds in its closure.
CapturedProvider(i) == raceInvoked[i]

\* The promise returned by invoke(provider) settles; promises settle in any
\* order, also after the race has resolved.
RaceSettle(i) ==
  /\ racePc \in {"running", "done"}
  /\ i \in 1..Len(racePromises)
  /\ racePromises[i] = Pending
  /\ LET r == SettleAsync(CapturedProvider(i))
     IN /\ racePromises' = [racePromises EXCEPT ![i] = r.promise]
        /\ raceLog' = raceLog \o r.log
  /\ UNCHANGED <<raceProviders, racePc, raceIndex, raceResult, raceInvoked>>

\* asyncFind(datatipPromises, p => p): awaits the promises one after the
\* other in array order and resolves with the first truthy value, or with
\* null after the last one; a rejected promise fails the search.
asyncFindStep(items, index) ==
  IF items[index] = Rejected
    THEN [pc |-> "failed", index |-> index, result |-> Null]
  ELSE IF items[index] # Null
    THEN [pc |-> "done", index |-> index, result |-> items[index]]
  ELSE IF index = Len(items)
    THEN [pc |-> "done", index |-> index, result |-> Null]
  ELSE [pc |-> "running", index |-> index + 1, result |-> Null]

RaceFind ==
  /\ racePc = "running"
  /\ racePromises[raceIndex] # Pending
  /\ LET r == asyncFindStep(racePromises, raceIndex)
     IN /\ racePc' = r.pc
        /\ raceIndex' = r.index
        /\ raceResult' = r.result
  /\ UNCHANGED <<raceProviders, racePromises, raceInvoked, raceLog>>

RaceUnchanged == UNCHANGED <<sessionVars, histVars, managerVars, diagVars>>

RaceNext ==
  \/ (\E provider \in ProviderAt(FreshIndex) :
        racePc = "idle" /\ AddProvider(provider)) /\ RaceUnchanged
  \/ RaceStart /\ RaceUnchanged
  \/ (\E i \in 1..MaxProviders : RaceSettle(i)) /\ RaceUnchanged
  \/ RaceFind /\ RaceUnchanged

(***************************************************************************)
(* The editor session: values                                              *)
(***************************************************************************)
CUMULATIVE_WHEELX_THRESHOLD == 20
DEFAULT_DATATIP_DEBOUNCE_DELAY == 1000
DEFAULT_DATATIP_INTERACTED_DEBOUNCE_DELAY == 1000

Columns == 0..MaxColumn
Point(c) == [column |-> c]
Points == {Point(c) : c \in Columns}

Ranges == {r \in [start : Columns, end : Columns] : r.start <= r.end}

\* atom Range.containsPoint(point): both ends inclusive.
containsPoint(range, point) ==
  range.start <= point.column /\ point.column <= range.end

\* A mouse event of the editor view, by the horizontal pixel offset of the
\* pointer; one pixel unit is one default character width.
MouseLefts == (-1)..(MaxColumn + 2)
MouseEvents == [left : MouseLefts]

ModifierKeys == {"alt"}
Keys == ModifierKeys \cup {"a"}

\* deltaX of the wheel events, and the steps of the clock.
WheelDeltas == {15}
TickSteps == {50}

States == {"HIDDEN", "FETCHING", "VISIBLE"}

\* What a race (getTopDatatipAndProvider) of a fetch can resolve to.
LookupResults(class) ==
  {Null} \cup {[provider |-> class, datatip |-> [range |-> r]] : r \in Ranges}

\* The same with the datatip that has no range.
AnyLookupResults(class) ==
  LookupResults(class) \cup {[provider |-> class, datatip |-> [range |-> Null]]}

Free == [free |-> TRUE]
PromiseIds == 1..(MaxInFlight + 1)
PinnedIds == 1..MaxPinned

ensurePositiveNumber(value, defaultValue) ==
  IF value < 0 THEN defaultValue ELSE value

\* debounce(func, wait, false): calling the debounced function (re)starts
\* a single timer; func runs when the timer expires.
debounce(wait) == [wait |-> wait, timeout |-> Null]
CallDebounced(d) == [d EXCEPT !.timeout = [at |-> now + d.wait]]

getBufferPosition(event) ==
  IF event = Null THEN Null
  ELSE LET column == IF event.left < 0 THEN 0
                     ELSE IF event.left > MaxColumn THEN MaxColumn
                     ELSE event.left
           horizontalDistance == event.left - column
       IN IF event.left < 0 \/ horizontalDistance > 1
            THEN Null
            ELSE Point(column)

\* The three getPosition closures handed to _startFetching.
GetPosition(kind, s) ==
  CASE kind = "mouse" -> getBufferPosition(s._lastMoveEvent)
    [] kind = "cursorBuffer" -> cursor
    [] kind = "cursorScreen" -> cursor

(***************************************************************************)
(* The editor session: handlers.  A handler maps a context c = [s, inflight,*)
(* promises] (the session fields, the suspended fetches and the lookup     *)
(* promises) to the context after it has run.                              *)
(***************************************************************************)
Ctx == [s |-> session, inflight |-> inflight, promises |-> promises]

WithS(c, s) == [c EXCEPT !.s = s]

_hideDatatip(c) ==
  WithS(c, [c.s EXCEPT !._lastHiddenTime = now,
                       !._marker = Null,
                       !._range = Null])

\* _setState without the call of _hideDatatip.
_setState_keepsOverlay(c, newState) ==
  WithS(c, [c.s EXCEPT !._datatipState = newState,
                       !._blacklistedPosition =
                          IF newState = "HIDDEN" THEN Null ELSE @])

_setState(c, newState) ==
  LET oldState == c.s._datatipState
      c1 == WithS(c, [c.s EXCEPT !._datatipState = newState])
  IN IF newState = "HIDDEN"
       THEN LET c2 == WithS(c1, [c1.s EXCEPT !._blacklistedPosition = Null])
            IN IF oldState # "HIDDEN" THEN _hideDatatip(c2) ELSE c2
       ELSE c1

_isHoveringOverPinnedTip(c) ==
  \E id \in c.s._pinnedDatatips : pinnedTips[id].hovering

\* Ids of the lookup promises something still holds on to.
Referenced(c) ==
  {c.s._lastDatatipAndProviderPromise}
    \cup {c.inflight[i].promise : i \in 1..Len(c.inflight)}

Collect(c) ==
  [c EXCEPT !.promises =
     [id \in PromiseIds |->
        IF id \in Referenced(c) THEN c.promises[id] ELSE Free]]

FreshPromise(c) ==
  CHOOSE id \in PromiseIds :
    /\ id \notin {c.inflight[i].promise : i \in 1..Len(c.inflight)}
    /\ \A other \in PromiseIds :
         other \notin {c.inflight[i].promise : i \in 1..Len(c.inflight)}
           => id <= other

\* The cached lookup taken for every position once there is one.
ReusesLookup_anyPosition(c, position) == c.s._lastPosition # Null

\* The position cache never taken.
ReusesLookup_never(c, position) == FALSE

\* The test of the position cache (line 667).
ReusesLookup(c, position) ==
  c.s._lastPosition # Null /\ position = c.s._lastPosition

\* _fetchAndRender up to its await: the plain lookup is reused when the
\* position equals the cached one and started anew otherwise; the modifier
\* race is started on every call.
_fetchAndRenderBegin(c, kind, position) ==
  IF ReusesLookup(c, position)
    THEN [c EXCEPT !.inflight =
            Append(@, [kind |-> kind, position |-> position,
                       promise |-> c.s._lastDatatipAndProviderPromise])]
    ELSE LET id == FreshPromise(c)
         IN Collect(
              [s |-> [c.s EXCEPT !._lastDatatipAndProviderPromise = id,
                                 !._lastPosition = position],
               inflight |-> Append(c.inflight,
                                   [kind |-> kind, position |-> position,
                                    promise |-> id]),
               promises |-> [c.promises EXCEPT ![id] = Pending]])

\* _startFetching from the position getPosition() returned up to its await.
_startFetchingAt(c, kind, position) ==
  IF position = Null
    THEN c
    ELSE _fetchAndRenderBegin(_setState(c, "FETCHING"), kind, position)

\* _startFetching up to its await.
_startFetching(c, kind) == _startFetchingAt(c, kind, GetPosition(kind, c.s))

\* Compaction that keeps the last value that is not null.
arrayCompact_last(xs) ==
  LET kept == SelectSeq(xs, LAMBDA x : x # Null)
  IN IF kept = <<>> THEN <<>> ELSE <<kept[Len(kept)]>>

\* arrayCompact of the two race results, then the data _fetchAndRender
\* returns: the range of the first remaining datatip and the datatips to
\* render.
arrayCompact(xs) == SelectSeq(xs, LAMBDA x : x # Null)

\* Reading range.start of a datatip without a range (line 701) throws: the
\* promise of _fetchAndRender is rejected.
_fetchAndRenderEnd(plainResult, modifierResult) ==
  LET datatipsAndProviders == arrayCompact(<<plainResult, modifierResult>>)
  IN IF Len(datatipsAndProviders) = 0
       THEN Null
     ELSE IF datatipsAndProviders[1].datatip.range = Null
       THEN Rejected
       ELSE [range |-> datatipsAndProviders[1].datatip.range,
             renderedProviders |->
               [i \in 1..Len(datatipsAndProviders) |->
                  datatipsAndProviders[i].provider]]

mountDatatipWithMarker(data) == [range |-> data.range]

\* _startFetching after its await; a rejected _fetchAndRender makes the
\* await throw, which ends _startFetching there.
_startFetchingResume(c, kind, data) ==
  IF data = Rejected
    THEN c
  ELSE IF data = Null
    THEN _setState(c, "HIDDEN")
    ELSE
      LET c1 == IF c.s._datatipState # "FETCHING"
                  THEN _setState(c, "HIDDEN")
                  ELSE c
      IN IF /\ c1.s._blacklistedPosition # Null
            /\ data.range # Null
            /\ containsPoint(data.range, c1.s._blacklistedPosition)
           THEN _setState(c1, "HIDDEN")
         ELSE
           LET currentPosition == GetPosition(kind, c1.s)
           IN IF \/ currentPosition = Null
                 \/ data.range = Null
                 \/ ~containsPoint(data.range, currentPosition)
                THEN _setState(c1, "HIDDEN")
              ELSE IF _isHoveringOverPinnedTip(c1)
                THEN _setState(c1, "HIDDEN")
              ELSE
                LET c2 == _setState(c1, "VISIBLE")
                IN WithS(c2, [c2.s EXCEPT
                                !._interactedWith = FALSE,
                                !._cumulativeWheelX = 0,
                                !._range = data.range,
                                !._marker = mountDatatipWithMarker(data)])

\* _hideOrCancel recording nothing while HIDDEN or FETCHING.
_hideOrCancel_noBlacklist(c) ==
  IF c.s._datatipState \in {"HIDDEN", "FETCHING"}
    THEN c
    ELSE _setState(c, "HIDDEN")

\* _hideOrCancel without the blacklisting branch.
_hideOrCancel_alwaysHides(c) == _setState(c, "HIDDEN")

_hideOrCancel(c) ==
  IF c.s._datatipState \in {"HIDDEN", "FETCHING"}
    THEN WithS(c, [c.s EXCEPT !._blacklistedPosition =
                                getBufferPosition(c.s._lastMoveEvent)])
    ELSE _setState(c, "HIDDEN")

_hideIfOutsideImmediate(c) ==
  IF c.s._datatipState # "VISIBLE" THEN c
  ELSE IF c.s._insideDatatip THEN c
  ELSE IF _isHoveringOverPinnedTip(c) THEN _setState(c, "HIDDEN")
  ELSE LET currentPosition == getBufferPosition(c.s._lastMoveEvent)
       IN IF /\ currentPosition # Null
             /\ c.s._range # Null
             /\ containsPoint(c.s._range, currentPosition)
            THEN c
            ELSE _setState(c, "HIDDEN")

\* _hideIfOutside taking the immediate path whether or not the tooltip has
\* been interacted with.
_hideIfOutside_immediate(c) == _hideIfOutsideImmediate(c)

_hideIfOutside(c) ==
  IF c.s._datatipState # "VISIBLE" THEN c
  ELSE IF c.s._interactedWith
    THEN WithS(c, [c.s EXCEPT !._hideIfOutsideDebounce = CallDebounced(@)])
    ELSE _hideIfOutsideImmediate(c)

\* The key press fetch always taken from the last mouse move.
_fetchInResponseToKeyPress_mouse(c) == _startFetching(c, "mouse")

_fetchInResponseToKeyPress(c) ==
  IF c.s._lastFetchedFromCursorPosition
    THEN _startFetching(c, "cursorBuffer")
    ELSE _startFetching(c, "mouse")

\* _setStartFetchingDebounce when featureConfig.get returns the settings
\* config: the field is assigned a new debounced function; the one it held
\* is neither called nor disposed.
_setStartFetchingDebounceWith(s, config) ==
  [s EXCEPT !._startFetchingDebounce =
     debounce(ensurePositiveNumber(config.datatipDebounceDelay,
                                   DEFAULT_DATATIP_DEBOUNCE_DELAY))]

_setStartFetchingDebounce(s) == _setStartFetchingDebounceWith(s, featureConfig)

_setHideIfOutsideDebounce(s) ==
  [s EXCEPT !._hideIfOutsideDebounce =
     debounce(ensurePositiveNumber(
                featureConfig.datatipInteractedWithDebounceDelay,
                DEFAULT_DATATIP_INTERACTED_DEBOUNCE_DELAY))]

\* _toggleDatatip forcing a show on every keydown, however long ago the
\* tooltip was hidden.
_toggleDatatip_noHideGuard(c, eventType, isActive) ==
  IF ~isActive THEN c
  ELSE
    LET forceShow == eventType = "keydown"
        forceHide == eventType = "keyup"
        forceToggle == eventType # "keydown" /\ eventType # "keyup"
    IN IF forceShow \/ (forceToggle /\ c.s._datatipState = "HIDDEN")
         THEN _startFetching(
                WithS(c, [c.s EXCEPT !._lastFetchedFromCursorPosition = TRUE]),
                "cursorScreen")
       ELSE IF forceHide \/ forceToggle
         THEN _hideOrCancel(c)
       ELSE c

\* _toggleDatatip deciding by the session state alone, whatever the event.
_toggleDatatip_stateOnly(c, eventType, isActive) ==
  IF ~isActive THEN c
  ELSE IF c.s._datatipState = "HIDDEN"
    THEN _startFetching(
           WithS(c, [c.s EXCEPT !._lastFetchedFromCursorPosition = TRUE]),
           "cursorScreen")
    ELSE _hideOrCancel(c)

\* _toggleDatatip: the handler of the nuclide-datatip:toggle command.
\* eventType is the type of the original event of the command ("none"
\* when there is none); isActive tells whether this editor is the one
\* atom.workspace.getActiveTextEditor() returns.
_toggleDatatip(c, eventType, isActive) ==
  IF ~isActive THEN c
  ELSE
    LET forceShow == /\ eventType = "keydown"
                     /\ now - c.s._lastHiddenTime > 100
        forceHide == eventType = "keyup"
        forceToggle == eventType # "keydown" /\ eventType # "keyup"
    IN IF forceShow \/ (forceToggle /\ c.s._datatipState = "HIDDEN")
         THEN _startFetching(
                WithS(c, [c.s EXCEPT !._lastFetchedFromCursorPosition = TRUE]),
                "cursorScreen")
       ELSE IF forceHide \/ forceToggle
         THEN _hideOrCancel(c)
       ELSE c

(***************************************************************************)
(* The editor session: initial state and events                            *)
(***************************************************************************)
\* The fields the constructor of DatatipManagerForEditor sets.
NewSession ==
  _setHideIfOutsideDebounce(_setStartFetchingDebounce(
    [_blacklistedPosition |-> Null,
     _datatipState |-> "HIDDEN",
     _insideDatatip |-> FALSE,
     _lastHiddenTime |-> 0,
     _lastFetchedFromCursorPosition |-> FALSE,
     _lastMoveEvent |-> Null,
     _lastPosition |-> Null,
     _lastDatatipAndProviderPromise |-> 0,
     _heldKeys |-> {},
     _marker |-> Null,
     _pinnedDatatips |-> {},
     _range |-> Null,
     _shouldDropNextMouseMoveAfterFocus |-> FALSE,
     _startFetchingDebounce |-> Null,
     _hideIfOutsideDebounce |-> Null,
     _interactedWith |-> FALSE,
     _cumulativeWheelX |-> 0]))

SessionInit(fetchDelay, hideDelay) ==
  /\ featureConfig = [datatipDebounceDelay |-> fetchDelay,
                      datatipInteractedWithDebounceDelay |-> hideDelay]
  /\ session = NewSession
  /\ inflight = <<>>
  /\ promises = [id \in PromiseIds |-> Free]
  /\ pinnedTips = [id \in PinnedIds |-> [live |-> FALSE, hovering |-> FALSE]]
  /\ cursor = Point(0)
  /\ now = 200       \* the editor is opened in an application that has been
                     \* running for more than 100ms
  /\ disposed = FALSE
  /\ replacedTimers = <<>>
  /\ events = 0
  /\ burst = Null
  /\ hover = Null
  /\ toggled = Null
  /\ lastEvent = Null
  /\ resolved = [count |-> 0, serials |-> <<>>, log |-> <<>>, last |-> "none"]

\* The step of an event whose handlers leave the context c behind.
Apply(c) ==
  /\ Len(c.inflight) <= MaxInFlight
  /\ session' = c.s
  /\ inflight' = c.inflight
  /\ promises' = c.promises

EnvUnchanged ==
  UNCHANGED <<pinnedTips, cursor, now, disposed, featureConfig,
              replacedTimers>>

Focus ==
  /\ ~disposed
  /\ LET c == WithS(Ctx, [session EXCEPT
                            !._shouldDropNextMouseMoveAfterFocus = TRUE])
     IN Apply(IF ~session._insideDatatip THEN _setState(c, "HIDDEN") ELSE c)
  /\ EnvUnchanged

\* The blur handler without the test of _insideDatatip.
BlurHandler_always(c) == _setState(c, "HIDDEN")

\* The blur handler of the editor view.
BlurHandler(c) ==
  IF ~c.s._insideDatatip THEN _setState(c, "HIDDEN") ELSE c

Blur ==
  /\ ~disposed
  /\ Apply(BlurHandler(Ctx))
  /\ EnvUnchanged

\* The mousemove handler calling the debounced _startFetching only when no
\* timer is pending: the timer runs from the first move of a burst.
MouseMoveHandler_noRestart(c, e, keys) ==
  LET c1 == WithS(c, [c.s EXCEPT !._lastFetchedFromCursorPosition = FALSE])
  IN IF c1.s._shouldDropNextMouseMoveAfterFocus
       THEN WithS(c1, [c1.s EXCEPT
                         !._shouldDropNextMouseMoveAfterFocus = FALSE])
       ELSE LET c2 == WithS(c1, [c1.s EXCEPT !._lastMoveEvent = e,
                                             !._heldKeys = keys])
            IN IF c2.s._datatipState = "HIDDEN"
                 THEN IF c2.s._startFetchingDebounce.timeout = Null
                        THEN WithS(c2, [c2.s EXCEPT
                               !._startFetchingDebounce = CallDebounced(@)])
                        ELSE c2
                 ELSE _hideIfOutside(c2)

MouseMoveHandler(c, e, keys) ==
  LET c1 == WithS(c, [c.s EXCEPT !._lastFetchedFromCursorPosition = FALSE])
  IN IF c1.s._shouldDropNextMouseMoveAfterFocus
       THEN WithS(c1, [c1.s EXCEPT
                         !._shouldDropNextMouseMoveAfterFocus = FALSE])
       ELSE LET c2 == WithS(c1, [c1.s EXCEPT !._lastMoveEvent = e,
                                             !._heldKeys = keys])
            IN IF c2.s._datatipState = "HIDDEN"
                 THEN WithS(c2, [c2.s EXCEPT
                                   !._startFetchingDebounce = CallDebounced(@)])
                 ELSE _hideIfOutside(c2)

MouseMove(e, keys) ==
  /\ ~disposed
  /\ Apply(MouseMoveHandler(Ctx, e, keys))
  /\ EnvUnchanged

MouseLeave ==
  /\ ~disposed
  /\ Apply(_hideIfOutside(WithS(Ctx, [session EXCEPT !._lastMoveEvent = Null])))
  /\ EnvUnchanged

\* mousedown in the editor view outside the datatip element.
MouseDown ==
  /\ ~disposed
  /\ Apply(_hideOrCancel(Ctx))
  /\ EnvUnchanged

\* mousedown inside the datatip element: its own handler marks the
\* interaction, the handler of the editor view returns at the element.
DatatipMouseDown ==
  /\ ~disposed
  /\ session._marker # Null
  /\ Apply(WithS(Ctx, [session EXCEPT !._interactedWith = TRUE]))
  /\ EnvUnchanged

KeyDown(key) ==
  /\ ~disposed
  /\ IF key \in ModifierKeys
       THEN LET c == WithS(Ctx, [session EXCEPT !._heldKeys = @ \cup {key}])
            IN Apply(IF session._datatipState # "HIDDEN"
                       THEN _fetchInResponseToKeyPress(c) ELSE c)
       ELSE Apply(_hideOrCancel(Ctx))
  /\ EnvUnchanged

KeyUp(key) ==
  /\ ~disposed
  /\ IF key \in ModifierKeys
       THEN LET c == WithS(Ctx, [session EXCEPT !._heldKeys = @ \ {key}])
            IN Apply(IF session._datatipState # "HIDDEN"
                       THEN _fetchInResponseToKeyPress(c) ELSE c)
       ELSE Apply(Ctx)
  /\ EnvUnchanged

Wheel(deltaX) ==
  /\ ~disposed
  /\ session._marker # Null
  /\ session._cumulativeWheelX + deltaX <= MaxWheelX
  /\ LET sum == session._cumulativeWheelX + deltaX
     IN Apply(WithS(Ctx, [session EXCEPT
                !._cumulativeWheelX = sum,
                !._interactedWith =
                   IF sum > CUMULATIVE_WHEELX_THRESHOLD THEN TRUE ELSE @]))
  /\ EnvUnchanged

DatatipMouseEnter ==
  /\ ~disposed
  /\ session._marker # Null
  /\ ~session._insideDatatip
  /\ Apply(_hideIfOutside(WithS(Ctx, [session EXCEPT !._insideDatatip = TRUE])))
  /\ EnvUnchanged

DatatipMouseLeave ==
  /\ ~disposed
  /\ session._insideDatatip
  /\ Apply(_hideIfOutside(WithS(Ctx, [session EXCEPT !._insideDatatip = FALSE])))
  /\ EnvUnchanged

\* The scroll handler hiding the way a mouse move does.
ScrollTopHandler_hideIfOutside(c) ==
  _hideIfOutside(WithS(c, [c.s EXCEPT !._lastMoveEvent = Null]))

\* The onDidChangeScrollTop handler of the editor view.
ScrollTopHandler(c) ==
  LET c1 == WithS(c, [c.s EXCEPT !._lastMoveEvent = Null])
  IN IF c.s._datatipState = "VISIBLE" THEN _setState(c1, "HIDDEN") ELSE c1

ScrollTop ==
  /\ ~disposed
  /\ Apply(ScrollTopHandler(Ctx))
  /\ EnvUnchanged

ToggleDatatip(eventType, isActive) ==
  /\ ~disposed
  /\ Apply(_toggleDatatip(Ctx, eventType, isActive))
  /\ EnvUnchanged

\* The timer of _startFetchingDebounce expires.
FetchTimerFire ==
  /\ session._startFetchingDebounce.timeout # Null
  /\ session._startFetchingDebounce.timeout.at = now
  /\ Apply(_startFetching(
       WithS(Ctx, [session EXCEPT !._startFetchingDebounce.timeout = Null]),
       "mouse"))
  /\ EnvUnchanged

RemoveAt(seq, i) == SubSeq(seq, 1, i - 1) \o SubSeq(seq, i + 1, Len(seq))

\* The pending timer of a debounced function the field no longer holds,
\* taken as cancelled.
OldTimers_cancelled(old) == <<>>

\* The timers left behind by the debounced function `old` when the field
\* is assigned a new one: its pending timer stays scheduled.
OldTimers(old) == IF old.timeout = Null THEN <<>> ELSE <<old.timeout.at>>

\* The callback of featureConfig.observe for datatipDebounceDelay runs: the
\* setting has changed to delay.
ConfigChange(delay) ==
  /\ ~disposed
  /\ delay # featureConfig.datatipDebounceDelay
  /\ featureConfig' = [featureConfig EXCEPT !.datatipDebounceDelay = delay]
  /\ session' = _setStartFetchingDebounceWith(session, featureConfig')
  /\ replacedTimers' =
       replacedTimers \o OldTimers(session._startFetchingDebounce)
  /\ UNCHANGED <<inflight, promises, pinnedTips, cursor, now, disposed>>

\* The timer of a replaced debounced fetch starter expires: its function
\* calls _startFetching as that of the current one does.
ReplacedTimerFire(k) ==
  /\ k \in 1..Len(replacedTimers)
  /\ replacedTimers[k] = now
  /\ Apply(_startFetching(Ctx, "mouse"))
  /\ replacedTimers' = RemoveAt(replacedTimers, k)
  /\ UNCHANGED <<pinnedTips, cursor, now, disposed, featureConfig>>

\* The timer of _hideIfOutsideDebounce expires.
HideTimerFire ==
  /\ session._hideIfOutsideDebounce.timeout # Null
  /\ session._hideIfOutsideDebounce.timeout.at = now
  /\ Apply(_hideIfOutsideImmediate(
       WithS(Ctx, [session EXCEPT !._hideIfOutsideDebounce.timeout = Null])))
  /\ EnvUnchanged

\* Both races of the i-th suspended fetch have resolved, the plain lookup
\* with plainResult (the value every fetch sharing that promise sees) and
\* the modifier race with modifierResult: _fetchAndRender returns and
\* _startFetching goes on.
FetchCompleteHandler(c, i, plainResult, modifierResult) ==
  LET f == c.inflight[i]
      data == _fetchAndRenderEnd(plainResult, modifierResult)
  IN Collect(_startFetchingResume(
               [c EXCEPT !.inflight = RemoveAt(@, i),
                         !.promises[f.promise] = plainResult],
               f.kind, data))

FetchComplete(i, plainResult, modifierResult) ==
  /\ i \in 1..Len(inflight)
  /\ promises[inflight[i].promise] \in {Pending, plainResult}
  /\ Apply(FetchCompleteHandler(Ctx, i, plainResult, modifierResult))
  /\ EnvUnchanged

FreePinnedId == CHOOSE id \in PinnedIds :
                  ~pinnedTips[id].live
                  /\ \A other \in PinnedIds : ~pinnedTips[other].live => id <= other

\* _handlePinClicked: the pin action of the rendered datatip is clicked.
_handlePinClicked(c, id) ==
  LET c1 == _setState(c, "HIDDEN")
  IN WithS(c1, [c1.s EXCEPT !._pinnedDatatips = @ \cup {id}])

PinClick ==
  /\ session._marker # Null
  /\ \E id \in PinnedIds : ~pinnedTips[id].live
  /\ Apply(_handlePinClicked(Ctx, FreePinnedId))
  /\ pinnedTips' = [pinnedTips EXCEPT
                      ![FreePinnedId] = [live |-> TRUE, hovering |-> FALSE]]
  /\ UNCHANGED <<cursor, now, disposed, featureConfig, replacedTimers>>

\* DatatipManagerForEditor.createPinnedDataTip: the created PinnedDatatip
\* is returned; this._pinnedDatatips is not touched.
createPinnedDataTip(c, id) == c

CreatePinnedDataTip ==
  /\ ~disposed
  /\ \E id \in PinnedIds : ~pinnedTips[id].live
  /\ Apply(createPinnedDataTip(Ctx, FreePinnedId))
  /\ pinnedTips' = [pinnedTips EXCEPT
                      ![FreePinnedId] = [live |-> TRUE, hovering |-> FALSE]]
  /\ UNCHANGED <<cursor, now, disposed, featureConfig, replacedTimers>>

\* PinnedDatatip: the pointer enters or leaves the pinned tip (isHovering()
\* reports it), the tip asks its session to hide the hover tooltip, the tip
\* is disposed.
PinnedMouseEnter(id) ==
  /\ pinnedTips[id].live
  /\ ~pinnedTips[id].hovering
  /\ pinnedTips' = [pinnedTips EXCEPT ![id].hovering = TRUE]
  /\ UNCHANGED <<session, inflight, promises, cursor, now, disposed,
                 featureConfig, replacedTimers>>

PinnedMouseLeave(id) ==
  /\ pinnedTips[id].live
  /\ pinnedTips[id].hovering
  /\ pinnedTips' = [pinnedTips EXCEPT ![id].hovering = FALSE]
  /\ UNCHANGED <<session, inflight, promises, cursor, now, disposed,
                 featureConfig, replacedTimers>>

PinnedHideDataTips(id) ==
  /\ pinnedTips[id].live
  /\ Apply(_hideDatatip(Ctx))
  /\ EnvUnchanged

\* The onDispose callback leaving the set as it is.
onDispose_keeps(c, id) == c

onDispose(c, id) == WithS(c, [c.s EXCEPT !._pinnedDatatips = @ \ {id}])

PinnedDispose(id) ==
  /\ pinnedTips[id].live
  /\ Apply(onDispose(Ctx, id))
  /\ pinnedTips' = [pinnedTips EXCEPT
                      ![id] = [live |-> FALSE, hovering |-> FALSE]]
  /\ UNCHANGED <<cursor, now, disposed, featureConfig, replacedTimers>>

\* DatatipManagerForEditor.dispose
dispose(c) == _setState(c, "HIDDEN")

Dispose ==
  /\ ~disposed
  /\ Apply(dispose(Ctx))
  /\ disposed' = TRUE
  /\ UNCHANGED <<pinnedTips, cursor, now, featureConfig, replacedTimers>>

\* The editor's cursor moves.
CursorMove(point) ==
  /\ point # cursor
  /\ cursor' = point
  /\ UNCHANGED <<session, inflight, promises, pinnedTips, now, disposed,
                 featureConfig, replacedTimers>>

PendingDeadlines ==
  {d.timeout.at : d \in {x \in {session._startFetchingDebounce,
                                session._hideIfOutsideDebounce} :
                           x.timeout # Null}}
    \cup {replacedTimers[k] : k \in 1..Len(replacedTimers)}

\* Time passes; a timer expires when its deadline is reached.
Tick(step) ==
  /\ \A at \in PendingDeadlines : now + step <= at
  /\ now' = now + step
  /\ UNCHANGED <<session, inflight, promises, pinnedTips, cursor, disposed,
                 featureConfig, replacedTimers>>

(***************************************************************************)
(* DatatipManager: one session per text editor, all sharing the two        *)
(* provider arrays.  Every editor has the grammar scope the providers'     *)
(* validForScope is evaluated at.                                          *)
(***************************************************************************)
Editors == 1..MaxEditors

\* The state after the constructor: observeTextEditors has been subscribed
\* and the workspace has no editor yet.
ManagerInit ==
  /\ editorState = [e \in Editors |-> "new"]
  /\ managers = [e \in Editors |-> Null]
  /\ _editorManagers = {}
  /\ _subscriptions = [disposed |-> FALSE, closures |-> {}]
  /\ _datatipProviders = <<>>
  /\ _modifierDatatipProviders = <<>>
  /\ observed = [disposeCalls |-> [e \in Editors |-> 0],
                 tips |-> [e \in Editors |-> 0],
                 pinned |-> Null,
                 fetches |-> [e \in Editors |-> <<>>]]

\* The sessions, the keys of the map and the calls of dispose() so far, as
\* the closures below change them.
ManagerState ==
  [managers |-> managers, keys |-> _editorManagers,
   calls |-> observed.disposeCalls]

SetManagerState(m) ==
  /\ managers' = m.managers
  /\ _editorManagers' = m.keys
  /\ observed' = [observed EXCEPT !.disposeCalls = m.calls]

\* The dispose closure without the delete.
DisposeClosure_keepsEntry(m, e) ==
  [m EXCEPT !.managers[e] = dispose(@), !.calls[e] = @ + 1]

\* The dispose closure made for editor e: manager.dispose(), then the entry
\* of e is deleted from the map.
DisposeClosure(m, e) ==
  [m EXCEPT !.managers[e] = dispose(@),
            !.keys = @ \ {e},
            !.calls[e] = @ + 1]

\* UniversalDisposable.dispose(): every teardown it holds is run.
RECURSIVE DisposeEach(_, _)
DisposeEach(m, closures) ==
  IF closures = {} THEN m
  ELSE LET e == CHOOSE x \in closures : TRUE
       IN DisposeEach(DisposeClosure(m, e), closures \ {e})

\* this._editorManagers.forEach(manager => manager.dispose())
RECURSIVE ForEachDispose(_, _)
ForEachDispose(m, keys) ==
  IF keys = {} THEN m
  ELSE LET e == CHOOSE x \in keys : TRUE
       IN ForEachDispose([m EXCEPT !.managers[e] = dispose(@),
                                   !.calls[e] = @ + 1],
                         keys \ {e})

\* The callback of observeTextEditors runs for an editor the workspace
\* opens, unless the subscription has been disposed.
OpenEditor(e) ==
  /\ editorState[e] = "new"
  /\ editorState' = [editorState EXCEPT ![e] = "open"]
  /\ IF _subscriptions.disposed
       THEN UNCHANGED <<managers, _editorManagers, _subscriptions>>
       ELSE /\ managers' = [managers EXCEPT ![e] =
                              [s |-> NewSession, inflight |-> <<>>,
                               promises |-> [id \in PromiseIds |-> Free]]]
            /\ _editorManagers' = _editorManagers \cup {e}
            /\ _subscriptions' =
                 [_subscriptions EXCEPT !.closures = @ \cup {e}]
  /\ UNCHANGED <<_datatipProviders, _modifierDatatipProviders, observed>>

\* The editor is destroyed: editor.onDidDestroy(dispose) runs the closure.
CloseEditor(e) ==
  /\ editorState[e] = "open"
  /\ editorState' = [editorState EXCEPT ![e] = "destroyed"]
  /\ IF managers[e] = Null
       THEN UNCHANGED <<managers, _editorManagers, observed>>
       ELSE SetManagerState(DisposeClosure(ManagerState, e))
  /\ UNCHANGED <<_subscriptions, _datatipProviders,
                 _modifierDatatipProviders>>

\* DatatipManager.dispose
ManagerDispose ==
  /\ LET m1 == IF _subscriptions.disposed
                 THEN ManagerState
                 ELSE DisposeEach(ManagerState, _subscriptions.closures)
         m2 == ForEachDispose(m1, m1.keys)
     IN SetManagerState([m2 EXCEPT !.keys = {}])
  /\ _subscriptions' = [disposed |-> TRUE, closures |-> {}]
  /\ UNCHANGED <<editorState, _datatipProviders,
                 _modifierDatatipProviders>>

\* The test before the throw of DatatipManager.createPinnedDataTip, never
\* true.
HasNoManager_never(e) == FALSE

\* const manager = this._editorManagers.get(editor); if (!manager)
HasNoManager(e) == e \notin _editorManagers

\* DatatipManager.createPinnedDataTip(datatip, editor)
ManagerCreatePinnedDataTip(e) ==
  /\ IF HasNoManager(e)
       THEN /\ observed' = [observed EXCEPT
                              !.pinned = [editor |-> e, outcome |-> "threw"]]
            /\ UNCHANGED managers
       ELSE /\ managers[e] # Null
            /\ managers' = [managers EXCEPT
                              ![e] = createPinnedDataTip(@, observed.tips[e] + 1)]
            /\ observed' = [observed EXCEPT
                              !.pinned = [editor |-> e, outcome |-> "returned"],
                              !.tips[e] = @ + 1]
  /\ UNCHANGED <<editorState, _editorManagers, _subscriptions,
                 _datatipProviders, _modifierDatatipProviders>>

\* The providers added under SpecManager: named ones that resolve a datatip.
ManagerProviderAt(i) ==
  {p \in ProviderAt(i) : /\ p.providerName # NoName
                          /\ p.outcome = "resolveDatatip"
                          /\ p.inclusionPriority # 5}

ManagerFreshIndex ==
  Len(_datatipProviders) + Len(_modifierDatatipProviders) + 1

\* DatatipManager.addProvider
ManagerAddProvider(provider) ==
  /\ Len(_datatipProviders) < MaxProviders
  /\ _datatipProviders' = addProvider(_datatipProviders, provider)
  /\ UNCHANGED <<editorState, managers, _editorManagers, _subscriptions,
                 _modifierDatatipProviders, observed>>

\* DatatipManager.addModifierProvider
ManagerAddModifierProvider(provider) ==
  /\ Len(_modifierDatatipProviders) < MaxProviders
  /\ _modifierDatatipProviders' =
       addProvider(_modifierDatatipProviders, provider)
  /\ UNCHANGED <<editorState, managers, _editorManagers, _subscriptions,
                 _datatipProviders, observed>>

\* The providers a call of getTopDatatipAndProvider on the array invokes.
InvokedBy(providers) ==
  IF ReturnsEarly(providers) THEN <<>> ELSE MappedProviders(providers)

LastTwo(seq) ==
  IF Len(seq) <= 2 THEN seq ELSE SubSeq(seq, Len(seq) - 1, Len(seq))

\* What _fetchAndRender of a session in context c does for position: whether
\* it reuses the cached lookup, and the providers its races invoke.
FetchRecord(c, position) ==
  [position |-> position,
   reused |-> ReusesLookup(c, position),
   plain |-> IF ReusesLookup(c, position) THEN <<>>
             ELSE InvokedBy(_datatipProviders),
   modifier |-> InvokedBy(_modifierDatatipProviders)]

\* The session of editor e starts a fetch for the position its getPosition()
\* returns (a key press with the cursor there).
ManagerFetch(e, position) ==
  /\ e \in _editorManagers
  /\ LET c == _startFetchingAt(managers[e], "cursorBuffer", position)
     IN /\ Len(c.inflight) <= MaxInFlight
        /\ managers' = [managers EXCEPT ![e] = c]
        /\ observed' =
             [observed EXCEPT !.fetches[e] =
                LastTwo(Append(@, FetchRecord(managers[e], position)))]
  /\ UNCHANGED <<editorState, _editorManagers, _subscriptions,
                 _datatipProviders, _modifierDatatipProviders>>

\* The test of _toggleDatatip taken as true for every session.
IsActiveEditor_always(active, e) == TRUE

\* atom.workspace.getActiveTextEditor() === this._editor
IsActiveEditor(active, e) == active = e

\* The command nuclide-datatip:toggle is dispatched while editor active is
\* the active text editor, its cursor at `cursor`: the _toggleDatatip of
\* every session whose subscriptions are live is called.
ManagerToggle(active, eventType) ==
  /\ editorState[active] = "open"
  /\ LET after == [e \in Editors |->
                     IF e \in _editorManagers
                       THEN _toggleDatatip(managers[e], eventType,
                                           IsActiveEditor(active, e))
                       ELSE managers[e]]
         started == {e \in _editorManagers :
                       Len(after[e].inflight) > Len(managers[e].inflight)}
     IN /\ \A e \in _editorManagers : Len(after[e].inflight) <= MaxInFlight
        /\ managers' = after
        /\ observed' =
             [observed EXCEPT !.fetches =
                [e \in Editors |->
                   IF e \in started
                     THEN LastTwo(Append(@[e], FetchRecord(managers[e], cursor)))
                     ELSE @[e]]]
  /\ UNCHANGED <<editorState, _editorManagers, _subscriptions,
                 _datatipProviders, _modifierDatatipProviders>>

\* The view of editor e loses focus.
ManagerBlur(e) ==
  /\ e \in _editorManagers
  /\ managers' = [managers EXCEPT ![e] = BlurHandler(@)]
  /\ UNCHANGED <<editorState, _editorManagers, _subscriptions,
                 _datatipProviders, _modifierDatatipProviders, observed>>

\* Both races of the i-th suspended fetch of the session made for editor e
\* resolve with null.
ManagerFetchComplete(e, i) ==
  /\ managers[e] # Null
  /\ i \in 1..Len(managers[e].inflight)
  /\ managers[e].promises[managers[e].inflight[i].promise] \in {Pending, Null}
  /\ managers' = [managers EXCEPT
                    ![e] = FetchCompleteHandler(@, i, Null, Null)]
  /\ UNCHANGED <<editorState, _editorManagers, _subscriptions,
                 _datatipProviders, _modifierDatatipProviders, observed>>

(***************************************************************************)
(* Spec: every event of the session                                        *)
(***************************************************************************)
(***************************************************************************)
(* KeyboardShortcuts of the diagnostics package (src/unnamed/part_000).    *)
(* An index that is null or undefined is NoIndex; the indexes the code     *)
(* sets count from 0 and are not negative.  A trace is the pair of whether *)
(* it has a file path and whether it has a range; a diagnostic carries its *)
(* scope and its trace, Null when it has none and [list |-> the array of   *)
(* traces] otherwise.                                                      *)
(***************************************************************************)
NoIndex == -1

Traces == [filePath : BOOLEAN, range : BOOLEAN] \ {[filePath |-> FALSE,
                                                    range |-> FALSE]}

RECURSIVE SeqsUpTo(_, _)
SeqsUpTo(S, n) ==
  IF n = 0 THEN {<<>>}
  ELSE LET shorter == SeqsUpTo(S, n - 1)
       IN shorter \cup {Append(q, x) : q \in shorter, x \in S}

Diagnostics ==
  [scope : {"file"}, trace : {Null} \cup [list : SeqsUpTo(Traces, MaxTraces)]]
    \cup {[scope |-> "project", trace |-> Null]}

Min(a, b) == IF a < b THEN a ELSE b
Max(a, b) == IF a > b THEN a ELSE b

\* The state after the constructor.
ShortcutsInit ==
  shortcuts = [_diagnostics |-> <<>>, _index |-> NoIndex,
               _traceIndex |-> NoIndex]

\* The index brought into the list from above only.
ClampIndex_upperOnly(index, length) == Min(index, length - 1)

\* Math.max(0, Math.min(index, this._diagnostics.length - 1))
ClampIndex(index, length) == Max(0, Min(index, length - 1))

setIndex(k, index) ==
  IF Len(k._diagnostics) = 0
    THEN [k EXCEPT !._traceIndex = NoIndex, !._index = NoIndex]
    ELSE [k EXCEPT !._traceIndex = NoIndex,
                   !._index = ClampIndex(index, Len(k._diagnostics))]

currentTraces(k) ==
  IF k._index = NoIndex THEN Null ELSE k._diagnostics[k._index + 1].trace

\* The test of trySetCurrentTrace looking at the file path only.
IsLocated_pathOnly(trace) == trace.filePath

\* trace.filePath != null && trace.range != null
IsLocated(trace) == trace.filePath /\ trace.range

\* The while loop of nextTrace from candidateTrace on: the shortcuts after
\* the first trace trySetCurrentTrace accepts, or after the fall back to the
\* diagnostic itself.
RECURSIVE nextTraceFrom(_, _, _)
nextTraceFrom(k, traces, candidateTrace) ==
  IF candidateTrace < Len(traces.list)
    THEN IF IsLocated(traces.list[candidateTrace + 1])
           THEN [k EXCEPT !._traceIndex = candidateTrace]
           ELSE nextTraceFrom(k, traces, candidateTrace + 1)
    ELSE [k EXCEPT !._traceIndex = NoIndex]

nextTrace(k) ==
  LET traces == currentTraces(k)
  IN IF traces = Null THEN k
     ELSE nextTraceFrom(k, traces,
                        IF k._traceIndex = NoIndex THEN 0
                        ELSE k._traceIndex + 1)

RECURSIVE previousTraceFrom(_, _, _)
previousTraceFrom(k, traces, candidateTrace) ==
  IF candidateTrace >= 0
    THEN IF IsLocated(traces.list[candidateTrace + 1])
           THEN [k EXCEPT !._traceIndex = candidateTrace]
           ELSE previousTraceFrom(k, traces, candidateTrace - 1)
    ELSE [k EXCEPT !._traceIndex = NoIndex]

previousTrace(k) ==
  LET traces == currentTraces(k)
  IN IF traces = Null THEN k
     ELSE previousTraceFrom(k, traces,
                            IF k._traceIndex = NoIndex
                              THEN Len(traces.list) - 1
                            ELSE k._traceIndex - 1)

\* allMessageUpdates emits the messages `diagnostics`.
AllMessageUpdates(diagnostics) ==
  shortcuts' =
    [_diagnostics |-> SelectSeq(diagnostics, LAMBDA d : d.scope = "file"),
     _index |-> NoIndex,
     _traceIndex |-> NoIndex]

GoToFirst == shortcuts' = setIndex(shortcuts, 0)

GoToLast == shortcuts' = setIndex(shortcuts, Len(shortcuts._diagnostics) - 1)

GoToNext ==
  shortcuts' = IF shortcuts._index = NoIndex
                 THEN setIndex(shortcuts, 0)
                 ELSE setIndex(shortcuts, shortcuts._index + 1)

GoToPrevious ==
  shortcuts' = IF shortcuts._index = NoIndex
                 THEN setIndex(shortcuts, Len(shortcuts._diagnostics) - 1)
                 ELSE setIndex(shortcuts, shortcuts._index - 1)

GoToNextTrace == shortcuts' = nextTrace(shortcuts)

GoToPreviousTrace == shortcuts' = previousTrace(shortcuts)

(***************************************************************************)
(* Activation of the diagnostics package: consumeDiagnosticUpdates and the *)
(* disposables it returns.  A disposable is the updater it was returned    *)
(* for, whether it holds the teardown that resets _diagnosticUpdaters, and *)
(* the number of calls of its dispose().                                   *)
(***************************************************************************)
Updaters == {[updater |-> i] : i \in 1..MaxUpdaters}

\* The state after the constructor.
ActivationInit ==
  activation = [_diagnosticUpdaters |-> Null, disposables |-> <<>>,
                threw |-> FALSE]

\* The test of line 123 never taken.
HasUpdater_never(a) == FALSE

\* this._diagnosticUpdaters.getValue() != null
HasUpdater(a) == a._diagnosticUpdaters # Null

consumeDiagnosticUpdates(a, diagnosticUpdater) ==
  IF HasUpdater(a)
    THEN [a EXCEPT !.disposables =
            Append(@, [updater |-> diagnosticUpdater, teardown |-> FALSE,
                       calls |-> 0])]
    ELSE [a EXCEPT !._diagnosticUpdaters = diagnosticUpdater,
                   !.disposables =
                     Append(@, [updater |-> diagnosticUpdater,
                                teardown |-> TRUE, calls |-> 0])]

\* The teardown of lines 153-156: invariant() throws when another updater
\* is the current one, and the reset is then not reached.
Teardown(a, diagnosticUpdater) ==
  IF a._diagnosticUpdaters # diagnosticUpdater
    THEN [a EXCEPT !.threw = TRUE]
    ELSE [a EXCEPT !._diagnosticUpdaters = Null]

\* UniversalDisposable.dispose() of the h-th disposable returned: its
\* teardowns run on the first call only.
disposeDisposable(a, h) ==
  LET d == a.disposables[h]
      counted == [a EXCEPT !.disposables[h].calls = @ + 1]
  IN IF d.calls = 0 /\ d.teardown
       THEN Teardown(counted, d.updater)
       ELSE counted

ConsumeDiagnosticUpdates(diagnosticUpdater) ==
  activation' = consumeDiagnosticUpdates(activation, diagnosticUpdater)

DisposeDisposable(h) ==
  /\ h \in 1..Len(activation.disposables)
  /\ activation' = disposeDisposable(activation, h)

vars == <<sessionVars, raceVars, histVars, managerVars, diagVars>>

DiagnosticsInit == ShortcutsInit /\ ActivationInit

\* Under Spec the fetch debounce delay is 100ms and the delay of the hide
\* debounce is 0ms: the hide timer expires in the instant it is started,
\* as an event of its own.

Init == SessionInit(100, 0) /\ RaceInit /\ ManagerInit /\ DiagnosticsInit

\* One more event is delivered, within the bound.
Count(max) == events < max /\ events' = events + 1

Main == Count(MaxEvents) /\ UNCHANGED <<raceVars, histVars, managerVars, diagVars>>

Next ==
  \/ Focus /\ Main
  \/ Blur /\ Main
  \/ \E e \in MouseEvents, keys \in SUBSET ModifierKeys :
       MouseMove(e, keys) /\ Main
  \/ MouseLeave /\ Main
  \/ MouseDown /\ Main
  \/ DatatipMouseDown /\ Main
  \/ \E key \in Keys : KeyDown(key) /\ Main
  \/ \E key \in Keys : KeyUp(key) /\ Main
  \/ \E deltaX \in WheelDeltas : Wheel(deltaX) /\ Main
  \/ DatatipMouseEnter /\ Main
  \/ DatatipMouseLeave /\ Main
  \/ ScrollTop /\ Main
  \/ \E eventType \in {"keydown", "keyup", "none"}, isActive \in BOOLEAN :
       ToggleDatatip(eventType, isActive) /\ Main
  \/ FetchTimerFire /\ Main
  \/ HideTimerFire /\ Main
  \/ \E i \in 1..MaxInFlight, plainResult \in LookupResults("plain"),
          modifierResult \in LookupResults("modifier") :
       FetchComplete(i, plainResult, modifierResult) /\ Main
  \/ PinClick /\ Main
  \/ CreatePinnedDataTip /\ Main
  \/ \E id \in PinnedIds : PinnedMouseEnter(id) /\ Main
  \/ \E id \in PinnedIds : PinnedMouseLeave(id) /\ Main
  \/ \E id \in PinnedIds : PinnedHideDataTips(id) /\ Main
  \/ \E id \in PinnedIds : PinnedDispose(id) /\ Main
  \/ Dispose /\ Main
  \/ \E point \in Points : CursorMove(point) /\ Main
  \/ \E step \in TickSteps : Tick(step) /\ Main

Spec == Init /\ [][Next]_vars

(***************************************************************************)
(* SpecRace: one race                                                      *)
(***************************************************************************)
SpecRace == Init /\ [][RaceNext]_vars

(***************************************************************************)
(* SpecRegistry: one race, with providers added to and removed from the    *)
(* array it was called with before, while and after it runs.               *)
(***************************************************************************)
\* The providers added under SpecRegistry: named ones that accept the scope.
RegistryProviderAt(i) ==
  {p \in ProviderAt(i) : p.providerName # NoName /\ p.validForScope}

RegistryStep ==
  /\ Count(MaxRegistryEvents)
  /\ UNCHANGED <<session, inflight, promises, pinnedTips, cursor, now,
                 disposed, featureConfig, replacedTimers, histVars,
                 managerVars, diagVars>>

NextRegistry ==
  \/ (\E provider \in RegistryProviderAt(FreshIndex) :
        AddProvider(provider)) /\ RegistryStep
  \/ (\E k \in 1..MaxProviders : RemoveProvider(k)) /\ RegistryStep
  \/ RaceStart /\ RaceUnchanged
  \/ (\E i \in 1..MaxProviders : RaceSettle(i)) /\ RaceUnchanged
  \/ RaceFind /\ RaceUnchanged

SpecRegistry == Init /\ [][NextRegistry]_vars

(***************************************************************************)
(* SpecBurst: mouse moves over a session and the fetch debounce.  burst    *)
(* records the moves received while HIDDEN that follow one another by less *)
(* than the fetch debounce delay, and the fetches started since the last   *)
(* of them.                                                                *)
(***************************************************************************)
FetchDelay == session._startFetchingDebounce.wait

BurstAfterMove(e) ==
  IF session._datatipState # "HIDDEN" THEN Null
  ELSE LET continues == /\ burst # Null
                        /\ burst.fetches = 0
                        /\ now - burst.lastAt < FetchDelay
       IN [moves |-> IF continues THEN burst.moves + 1 ELSE 1,
           firstAt |-> IF continues THEN burst.firstAt ELSE now,
           firstEvent |-> IF continues THEN burst.firstEvent ELSE e,
           lastAt |-> now,
           lastEvent |-> e,
           lastDropped |-> session._shouldDropNextMouseMoveAfterFocus,
           fetches |-> 0,
           fetchAt |-> 0,
           fetchPosition |-> Null]

BurstAfterFire ==
  IF burst = Null THEN Null
  ELSE IF Len(inflight') = Len(inflight) + 1
    THEN [burst EXCEPT !.fetches = @ + 1,
                       !.fetchAt = now,
                       !.fetchPosition = inflight'[Len(inflight')].position]
    ELSE burst

BurstStep(b) ==
  /\ Count(MaxBurstEvents)
  /\ burst' = b
  /\ UNCHANGED <<raceVars, hover, toggled, lastEvent, resolved, managerVars, diagVars>>

NextBurst ==
  \/ Focus /\ BurstStep(burst)
  \/ \E e \in MouseEvents, keys \in SUBSET ModifierKeys :
       MouseMove(e, keys) /\ BurstStep(BurstAfterMove(e))
  \/ \E step \in TickSteps : Tick(step) /\ BurstStep(burst)
  \/ FetchTimerFire /\ BurstStep(BurstAfterFire)
  \/ \E i \in 1..MaxInFlight, plainResult \in LookupResults("plain"),
          modifierResult \in LookupResults("modifier") :
       FetchComplete(i, plainResult, modifierResult) /\ BurstStep(Null)

SpecBurst == Init /\ [][NextBurst]_vars

(***************************************************************************)
(* SpecHide: a tooltip is shown by the toggle command, interacted with and *)
(* left by the pointer; the hide debounce delay is 50ms.  hover records    *)
(* the time of the last move from VISIBLE to a position outside the range  *)
(* of an interacted tooltip that is still shown (moveAt, -1 when there is  *)
(* none), the time the hide timer was last started (requestAt) and the     *)
(* last event.                                                             *)
(***************************************************************************)
HideDelay == session._hideIfOutsideDebounce.wait

InitHide ==
  SessionInit(100, 50) /\ RaceInit /\ ManagerInit /\ DiagnosticsInit

\* The position of the mouse event e is a buffer position outside the
\* range of the tooltip.
OutsideRange(e) ==
  LET position == getBufferPosition(e)
  IN /\ position # Null
     /\ session._range # Null
     /\ ~containsPoint(session._range, position)

HoverBase == IF hover = Null THEN [moveAt |-> -1, requestAt |-> -1, last |-> "none"]
             ELSE hover

\* hover after an event named last; requested tells whether its handler
\* called _hideIfOutside, moved whether it is a mouse move to a position
\* outside the range.
HoverAfter(last, requested, moved, handled) ==
  LET timed == /\ session._datatipState = "VISIBLE"
               /\ session._interactedWith
  IN [moveAt |-> IF session'._datatipState # "VISIBLE" THEN -1
                 ELSE IF timed /\ moved THEN now
                 ELSE IF timed /\ last = "move" /\ handled THEN -1
                 ELSE HoverBase.moveAt,
      requestAt |-> IF timed /\ requested THEN now ELSE HoverBase.requestAt,
      last |-> last]

HideStep(h) ==
  /\ Count(MaxHideEvents)
  /\ hover' = h
  /\ UNCHANGED <<raceVars, burst, toggled, lastEvent, resolved, managerVars, diagVars>>

NextHide ==
  \/ ToggleDatatip("none", TRUE)
       /\ HideStep(HoverAfter("toggle", FALSE, FALSE, TRUE))
  \/ \E i \in 1..MaxInFlight, plainResult \in LookupResults("plain"),
          modifierResult \in LookupResults("modifier") :
       FetchComplete(i, plainResult, modifierResult)
         /\ HideStep(HoverAfter("fetchComplete", FALSE, FALSE, TRUE))
  \/ Focus /\ HideStep(HoverAfter("focus", FALSE, FALSE, TRUE))
  \/ \E e \in MouseEvents, keys \in SUBSET ModifierKeys :
       MouseMove(e, keys)
         /\ HideStep(HoverAfter(
                       "move",
                       ~session._shouldDropNextMouseMoveAfterFocus,
                       OutsideRange(e),
                       ~session._shouldDropNextMouseMoveAfterFocus))
  \/ DatatipMouseDown /\ HideStep(HoverAfter("datatipDown", FALSE, FALSE, TRUE))
  \/ \E deltaX \in WheelDeltas :
       Wheel(deltaX) /\ HideStep(HoverAfter("wheel", FALSE, FALSE, TRUE))
  \/ DatatipMouseEnter /\ HideStep(HoverAfter("datatipEnter", TRUE, FALSE, TRUE))
  \/ DatatipMouseLeave /\ HideStep(HoverAfter("datatipLeave", TRUE, FALSE, TRUE))
  \/ \E step \in TickSteps :
       Tick(step) /\ HideStep(HoverAfter("tick", FALSE, FALSE, TRUE))
  \/ FetchTimerFire /\ HideStep(HoverAfter("fetchTimer", FALSE, FALSE, TRUE))
  \/ HideTimerFire /\ HideStep(HoverAfter("hideTimer", FALSE, FALSE, TRUE))

SpecHide == InitHide /\ [][NextHide]_vars

(***************************************************************************)
(* SpecToggle: the toggle command, hide/cancel requests and the fetches in *)
(* flight when they arrive.  toggled records the last event (last), the    *)
(* last toggle command (its event type, the time since the last hide,      *)
(* whether it started a fetch), how many of the oldest suspended fetches   *)
(* were in flight at the last key-up toggle (keyupPending) and the oldest  *)
(* hide/cancel request made while HIDDEN or FETCHING that still has        *)
(* fetches in flight (request: the pointer position then, and how many of  *)
(* the oldest suspended fetches were in flight then).                      *)
(***************************************************************************)
ToggledBase ==
  IF toggled = Null
    THEN [last |-> "none", eventType |-> "none", sinceHide |-> 0,
          started |-> FALSE, keyupPending |-> 0, request |-> Null]
    ELSE toggled

\* The request field after an event whose handler calls _hideOrCancel
\* (cancels) or does not.
RequestAfter(cancels) ==
  IF /\ cancels
     /\ session._datatipState \in {"HIDDEN", "FETCHING"}
     /\ (ToggledBase.request = Null \/ ToggledBase.request.pending = 0)
    THEN [position |-> getBufferPosition(session._lastMoveEvent),
          pending |-> Len(inflight)]
    ELSE ToggledBase.request

ToggledAfterEvent(last, cancels) ==
  [ToggledBase EXCEPT !.last = last, !.request = RequestAfter(cancels)]

ToggledAfterToggle(eventType) ==
  [last |-> "toggle",
   eventType |-> eventType,
   sinceHide |-> now - session._lastHiddenTime,
   started |-> Len(inflight') > Len(inflight),
   keyupPending |-> IF eventType = "keyup" THEN Len(inflight)
                    ELSE ToggledBase.keyupPending,
   request |-> RequestAfter(\/ eventType = "keyup"
                            \/ /\ eventType = "none"
                               /\ session._datatipState # "HIDDEN")]

ToggledAfterFetchComplete(i) ==
  [ToggledBase EXCEPT
     !.last = "fetchComplete",
     !.keyupPending = IF i <= @ THEN @ - 1 ELSE @,
     !.request = IF @ # Null /\ i <= @.pending
                   THEN [@ EXCEPT !.pending = @ - 1] ELSE @]

ToggleStep(t) ==
  /\ Count(MaxToggleEvents)
  /\ toggled' = t
  /\ UNCHANGED <<raceVars, burst, hover, lastEvent, resolved, managerVars, diagVars>>

NextToggle ==
  \/ \E eventType \in {"keydown", "keyup", "none"} :
       ToggleDatatip(eventType, TRUE)
         /\ ToggleStep(ToggledAfterToggle(eventType))
  \/ Blur /\ ToggleStep(ToggledAfterEvent("blur", FALSE))
  \/ \E e \in MouseEvents, keys \in SUBSET ModifierKeys :
       MouseMove(e, keys) /\ ToggleStep(ToggledAfterEvent("move", FALSE))
  \/ MouseDown /\ ToggleStep(ToggledAfterEvent("mousedown", TRUE))
  \/ \E step \in TickSteps :
       Tick(step) /\ ToggleStep(ToggledAfterEvent("tick", FALSE))
  \/ FetchTimerFire /\ ToggleStep(ToggledAfterEvent("fetchTimer", FALSE))
  \/ \E i \in 1..MaxInFlight, plainResult \in LookupResults("plain"),
          modifierResult \in LookupResults("modifier") :
       FetchComplete(i, plainResult, modifierResult)
         /\ ToggleStep(ToggledAfterFetchComplete(i))

SpecToggle == Init /\ [][NextToggle]_vars

(***************************************************************************)
(* SpecManager: editors are opened and destroyed, providers are added,     *)
(* sessions start fetches, pinned tips are asked for and the manager is    *)
(* disposed.                                                               *)
(***************************************************************************)
ManagerStep ==
  /\ Count(MaxManagerEvents)
  /\ UNCHANGED <<session, inflight, promises, pinnedTips, cursor, now,
                 disposed, featureConfig, replacedTimers, raceVars,
                 histVars, diagVars>>

NextManager ==
  \/ (\E e \in Editors : OpenEditor(e)) /\ ManagerStep
  \/ (\E e \in Editors : CloseEditor(e)) /\ ManagerStep
  \/ ManagerDispose /\ ManagerStep
  \/ (\E e \in Editors : ManagerCreatePinnedDataTip(e)) /\ ManagerStep
  \/ (\E provider \in ManagerProviderAt(ManagerFreshIndex) :
        ManagerAddProvider(provider)) /\ ManagerStep
  \/ (\E provider \in ManagerProviderAt(ManagerFreshIndex) :
        ManagerAddModifierProvider(provider)) /\ ManagerStep
  \/ (\E e \in Editors, position \in Points : ManagerFetch(e, position))
       /\ ManagerStep
  \/ (\E e \in Editors, i \in 1..(MaxInFlight + 1) :
        ManagerFetchComplete(e, i)) /\ ManagerStep

SpecManager == Init /\ [][NextManager]_vars

(***************************************************************************)
(* SpecSessions: the sessions of several open editors receive fetch        *)
(* starts, fetch completions, blur events and the toggle command.          *)
(***************************************************************************)
NextSessions ==
  \/ (\E e \in Editors : OpenEditor(e)) /\ ManagerStep
  \/ (\E e \in Editors, position \in Points : ManagerFetch(e, position))
       /\ ManagerStep
  \/ (\E e \in Editors, i \in 1..(MaxInFlight + 1) :
        ManagerFetchComplete(e, i)) /\ ManagerStep
  \/ (\E active \in Editors, eventType \in {"keydown", "keyup", "none"} :
        ManagerToggle(active, eventType)) /\ ManagerStep
  \/ (\E e \in Editors : ManagerBlur(e)) /\ ManagerStep

SpecSessions == Init /\ [][NextSessions]_vars


(***************************************************************************)
(* SpecOverlay and SpecKeys: one session under the toggle command and      *)
(* fetch completions, with the events of the tooltip element, scrolling    *)
(* and blur (SpecOverlay) or with mouse moves, keys and cursor moves       *)
(* (SpecKeys).  lastEvent records the last event, its arguments and the    *)
(* session, suspended fetches and cursor it met.                           *)
(***************************************************************************)
Met == [s |-> session, inflight |-> inflight, cursor |-> cursor]

EventStepWithin(max, event, arg) ==
  /\ Count(max)
  /\ lastEvent' = [event |-> event, arg |-> arg, before |-> Met]
  /\ UNCHANGED <<raceVars, burst, hover, toggled, resolved, managerVars, diagVars>>

EventStep(event, arg) == EventStepWithin(MaxSessionEvents, event, arg)

KeyStep(event, arg) == EventStepWithin(MaxKeyEvents, event, arg)

ToggleEvent ==
  \E eventType \in {"keydown", "keyup", "none"} :
    ToggleDatatip(eventType, TRUE)
      /\ EventStep("toggle", [eventType |-> eventType])

FetchCompleteEvent ==
  \E i \in 1..MaxInFlight, plainResult \in LookupResults("plain"),
     modifierResult \in LookupResults("modifier") :
    FetchComplete(i, plainResult, modifierResult)
      /\ EventStep("fetchComplete",
                   [i |-> i, plainResult |-> plainResult,
                    modifierResult |-> modifierResult])

NextOverlay ==
  \/ ToggleEvent
  \/ FetchCompleteEvent
  \/ DatatipMouseEnter /\ EventStep("datatipMouseEnter", Null)
  \/ DatatipMouseLeave /\ EventStep("datatipMouseLeave", Null)
  \/ DatatipMouseDown /\ EventStep("datatipMouseDown", Null)
  \/ ScrollTop /\ EventStep("scroll", Null)
  \/ Blur /\ EventStep("blur", Null)

SpecOverlay == Init /\ [][NextOverlay]_vars

NextKeys ==
  \/ \E eventType \in {"keydown", "keyup", "none"} :
       ToggleDatatip(eventType, TRUE)
         /\ KeyStep("toggle", [eventType |-> eventType])
  \/ \E i \in 1..MaxInFlight, plainResult \in LookupResults("plain"),
        modifierResult \in LookupResults("modifier") :
       FetchComplete(i, plainResult, modifierResult)
         /\ KeyStep("fetchComplete",
                    [i |-> i, plainResult |-> plainResult,
                     modifierResult |-> modifierResult])
  \/ \E e \in MouseEvents, keys \in SUBSET ModifierKeys :
       MouseMove(e, keys) /\ KeyStep("mousemove", [e |-> e])
  \/ \E key \in Keys : KeyDown(key) /\ KeyStep("keydown", [key |-> key])
  \/ \E key \in Keys : KeyUp(key) /\ KeyStep("keyup", [key |-> key])
  \/ \E point \in Points : CursorMove(point) /\ KeyStep("cursorMove", Null)

SpecKeys == Init /\ [][NextKeys]_vars

(***************************************************************************)
(* SpecPin: one session whose tooltip is shown and hidden by the toggle    *)
(* command, fetch completions and blur, with clicks on the pin action of   *)
(* the shown tooltip, the pointer over pinned tips, moves of the cursor    *)
(* and disposals of pinned tips.                                           *)
(***************************************************************************)
PinStep ==
  /\ Count(MaxPinEvents)
  /\ UNCHANGED <<raceVars, histVars, managerVars, diagVars>>

NextPin ==
  \/ ToggleDatatip("none", TRUE) /\ PinStep
  \/ (\E i \in 1..MaxInFlight, plainResult \in LookupResults("plain") :
        FetchComplete(i, plainResult, Null)) /\ PinStep
  \/ Blur /\ PinStep
  \/ PinClick /\ PinStep
  \/ (\E id \in PinnedIds : PinnedDispose(id)) /\ PinStep
  \/ (\E id \in PinnedIds : PinnedMouseEnter(id)) /\ PinStep
  \/ (\E id \in PinnedIds : PinnedMouseLeave(id)) /\ PinStep
  \/ (\E point \in Points : CursorMove(point)) /\ PinStep

SpecPin == Init /\ [][NextPin]_vars

(***************************************************************************)
(* SpecSettle: one session under the toggle command, key events and moves  *)
(* of the cursor, whose fetches complete with any datatips, with or        *)
(* without a range.  The input events are bounded; the races of a          *)
(* suspended fetch settle eventually.                                      *)
(***************************************************************************)
InputStep ==
  /\ Count(MaxSettleEvents)
  /\ UNCHANGED <<raceVars, histVars, managerVars, diagVars>>

\* Both races of a suspended fetch settle.
Settle ==
  /\ \E i \in 1..MaxInFlight, plainResult \in AnyLookupResults("plain"),
        modifierResult \in AnyLookupResults("modifier") :
       FetchComplete(i, plainResult, modifierResult)
  /\ UNCHANGED <<events, raceVars, histVars, managerVars, diagVars>>

NextSettle ==
  \/ (\E eventType \in {"keydown", "keyup", "none"} :
        ToggleDatatip(eventType, TRUE)) /\ InputStep
  \/ (\E key \in Keys : KeyDown(key)) /\ InputStep
  \/ (\E key \in Keys : KeyUp(key)) /\ InputStep
  \/ (\E point \in Points : CursorMove(point)) /\ InputStep
  \/ Settle

SpecSettle == Init /\ [][NextSettle]_vars /\ WF_vars(Settle)

(***************************************************************************)
(* SpecStale: one session under the toggle command, key events and moves   *)
(* of the cursor, whose fetches resume in any order.  resolved numbers the *)
(* fetches in the order they are started (serials runs parallel to         *)
(* inflight) and records, for the last two that resumed, the fetches that  *)
(* were suspended then and the data _fetchAndRender returned.              *)
(***************************************************************************)
StaleInput ==
  /\ Count(MaxStaleEvents)
  /\ resolved' =
       IF Len(inflight') > Len(inflight)
         THEN [resolved EXCEPT !.count = @ + 1,
                               !.serials = Append(@, resolved.count + 1),
                               !.last = "input"]
         ELSE [resolved EXCEPT !.last = "input"]
  /\ UNCHANGED <<raceVars, burst, hover, toggled, lastEvent, managerVars, diagVars>>

StaleComplete(i, plainResult, modifierResult) ==
  /\ Count(MaxStaleEvents)
  /\ resolved' =
       [resolved EXCEPT
          !.serials = RemoveAt(@, i),
          !.log = LastTwo(Append(@,
                    [serial |-> resolved.serials[i],
                     suspended |-> {resolved.serials[k] :
                                      k \in 1..Len(resolved.serials)},
                     data |-> _fetchAndRenderEnd(plainResult,
                                                 modifierResult)])),
          !.last = "complete"]
  /\ UNCHANGED <<raceVars, burst, hover, toggled, lastEvent, managerVars, diagVars>>

NextStale ==
  \/ (\E eventType \in {"keydown", "keyup", "none"} :
        ToggleDatatip(eventType, TRUE)) /\ StaleInput
  \/ (\E key \in Keys : KeyDown(key)) /\ StaleInput
  \/ (\E key \in Keys : KeyUp(key)) /\ StaleInput
  \/ (\E point \in Points : CursorMove(point)) /\ StaleInput
  \/ \E i \in 1..MaxInFlight, plainResult \in LookupResults("plain"),
        modifierResult \in LookupResults("modifier") :
       FetchComplete(i, plainResult, modifierResult)
         /\ StaleComplete(i, plainResult, modifierResult)

SpecStale == Init /\ [][NextStale]_vars

(***************************************************************************)
(* SpecConfig: one session, HIDDEN at first, under mouse moves, changes of *)
(* the datatipDebounceDelay setting, the passing of time and the timers of *)
(* the debounced fetch starters.  No fetch completes, so the session       *)
(* leaves HIDDEN only by a fetch the mouse moves have started, and every   *)
(* behaviour is one burst of moves from HIDDEN.                            *)
(***************************************************************************)
ConfigDelays == {50, 100}

ConfigStep ==
  /\ Count(MaxConfigEvents)
  /\ UNCHANGED <<raceVars, histVars, managerVars, diagVars>>

NextConfig ==
  \/ (\E e \in MouseEvents, keys \in SUBSET ModifierKeys : MouseMove(e, keys))
       /\ ConfigStep
  \/ (\E delay \in ConfigDelays : ConfigChange(delay)) /\ ConfigStep
  \/ (\E step \in TickSteps : Tick(step)) /\ ConfigStep
  \/ FetchTimerFire /\ ConfigStep
  \/ (\E k \in 1..MaxConfigEvents : ReplacedTimerFire(k)) /\ ConfigStep

SpecConfig == Init /\ [][NextConfig]_vars

(***************************************************************************)
(* SpecShortcuts: one KeyboardShortcuts under diagnostics updates and its  *)
(* six commands.  SpecActivation: one Activation under calls of            *)
(* consumeDiagnosticUpdates and of dispose() of the disposables returned.  *)
(***************************************************************************)
DatatipUnchanged ==
  UNCHANGED <<session, inflight, promises, pinnedTips, cursor, now, disposed,
              featureConfig, replacedTimers, raceVars, histVars, managerVars>>

ShortcutStep ==
  /\ Count(MaxShortcutEvents)
  /\ UNCHANGED activation
  /\ DatatipUnchanged

NextShortcuts ==
  \/ (\E diagnostics \in SeqsUpTo(Diagnostics, MaxDiagnostics) :
        AllMessageUpdates(diagnostics)) /\ ShortcutStep
  \/ GoToFirst /\ ShortcutStep
  \/ GoToLast /\ ShortcutStep
  \/ GoToNext /\ ShortcutStep
  \/ GoToPrevious /\ ShortcutStep
  \/ GoToNextTrace /\ ShortcutStep
  \/ GoToPreviousTrace /\ ShortcutStep

SpecShortcuts == Init /\ [][NextShortcuts]_vars

ActivationStep ==
  /\ Count(MaxActivationEvents)
  /\ UNCHANGED shortcuts
  /\ DatatipUnchanged

NextActivation ==
  \/ (\E diagnosticUpdater \in Updaters :
        ConsumeDiagnosticUpdates(diagnosticUpdater)) /\ ActivationStep
  \/ (\E h \in 1..MaxActivationEvents : DisposeDisposable(h))
       /\ ActivationStep

SpecActivation == Init /\ [][NextActivation]_vars

(***************************************************************************)
(* Claims about the race (SpecRace)                                        *)
(***************************************************************************)
RECURSIVE FirstResolving(_)
FirstResolving(providers) ==
  IF providers = <<>> THEN Null
  ELSE IF Head(providers).outcome = "resolveDatatip"
    THEN RaceValue(Head(providers))
    ELSE FirstResolving(Tail(providers))

Fails(provider) == provider.outcome \in {"throws", "rejects"}

FailureEntries(i) ==
  {k \in 1..Len(raceLog) :
     raceLog[k].kind = "datatipError" /\ raceLog[k].provider = i}

\* C1: a finished race has returned the result of the first provider, in
\* descending inclusionPriority order among the providers applicable to the
\* scope, whose invocation resolves to a datatip, and null when there is
\* none, whatever the registration order and the order of settling.
C1_RaceReturnsTopPriority ==
  racePc = "done" =>
    raceResult = FirstResolving(filterProvidersByScopeName(raceProviders))

\* C8: a provider whose invocation throws or rejects counts as returning no
\* result: the race never fails, once finished it has returned the result
\* of the first invoked provider that resolves to a datatip (so a provider
\* after the failing one can win), and each failing provider that has
\* settled has exactly one error entry in the log, under its name.
C8_FailureIsNoResult ==
  /\ racePc # "failed"
  /\ racePc = "done" /\ raceInvoked # <<>> =>
       raceResult =
         FirstResolving(raceInvoked)
  /\ \A k \in 1..Len(raceInvoked) :
       LET p == raceInvoked[k]
       IN IF Fails(p) /\ racePromises[k] # Pending
            THEN /\ Cardinality(FailureEntries(p.index)) = 1
                 /\ \A e \in FailureEntries(p.index) :
                      raceLog[e].name = getProviderName(p)
            ELSE FailureEntries(p.index) = {}

\* C8 witness: a finished race won by a provider that comes after one whose
\* invocation failed and was logged.
C8_Witness ==
  /\ racePc = "done"
  /\ raceResult # Null
  /\ \E k \in 1..Len(raceInvoked) :
       /\ Fails(raceInvoked[k])
       /\ racePromises[k] # Pending
       /\ raceInvoked[k].index < raceResult.provider.index
       /\ Cardinality(FailureEntries(raceInvoked[k].index)) = 1

Applicable(provider) ==
  provider.validForScope /\ provider.inclusionPriority > 0

\* C15: a race invokes exactly the applicable providers of the array it was
\* called with: a provider whose scope predicate rejects the scope or whose
\* priority is not positive is never invoked and never the provider of the
\* result.
C15_InvokesExactlyApplicable ==
  racePc # "idle" =>
    /\ {raceInvoked[k] : k \in 1..Len(raceInvoked)}
         = {raceProviders[k] : k \in {j \in 1..Len(raceProviders) :
                                        Applicable(raceProviders[j])}}
    /\ raceResult # Null => Applicable(raceResult.provider)

PositionIn(providers, provider) ==
  CHOOSE k \in 1..Len(providers) : providers[k] = provider

\* out holds each applicable provider of providers once, a higher priority
\* before a lower one and equal priorities in the order of providers.
IsApplicableSorted(providers, out) ==
  /\ Len(out) = Cardinality({k \in 1..Len(providers) :
                               Applicable(providers[k])})
  /\ {out[k] : k \in 1..Len(out)}
       = {providers[k] : k \in {j \in 1..Len(providers) :
                                  Applicable(providers[j])}}
  /\ \A i, j \in 1..Len(out) :
        i < j =>
          \/ out[i].inclusionPriority > out[j].inclusionPriority
          \/ /\ out[i].inclusionPriority = out[j].inclusionPriority
             /\ PositionIn(providers, out[i]) < PositionIn(providers, out[j])

\* C16: filterProvidersByScopeName returns exactly the providers that accept
\* the scope and have a positive priority, in descending priority with equal
\* priorities in registration order, and the call in a race leaves the array
\* it was given as it was.
C16_FilterSortsApplicable ==
  [][/\ IsApplicableSorted(raceProviders',
                           filterProvidersByScopeName(raceProviders'))
     /\ racePc = "idle" /\ racePc' # "idle" =>
          raceProviders' = raceProviders]_vars

\* A race has filtered an array of two applicable providers of the same
\* priority.
C16_Witness ==
  /\ racePc # "idle"
  /\ Len(raceProviders) = 2
  /\ Len(filterProvidersByScopeName(raceProviders)) = 2
  /\ raceProviders[1].inclusionPriority = raceProviders[2].inclusionPriority

\* C17: a race over an array without an applicable provider returns null and
\* invokes no provider (no promise is made and nothing is logged).
C17_NoApplicableProviderIsNull ==
  (/\ racePc # "idle"
   /\ \A k \in 1..Len(raceProviders) : ~Applicable(raceProviders[k]))
    => /\ racePc = "done"
       /\ raceResult = Null
       /\ raceInvoked = <<>>
       /\ racePromises = <<>>
       /\ raceLog = <<>>

\* A race over providers that would all resolve a datatip, none of them
\* applicable, has returned.
C17_Witness ==
  /\ racePc = "done"
  /\ Len(raceProviders) = MaxProviders
  /\ \A k \in 1..Len(raceProviders) :
        /\ ~Applicable(raceProviders[k])
        /\ raceProviders[k].outcome = "resolveDatatip"
  /\ raceInvoked = <<>>
  /\ raceResult = Null

(***************************************************************************)
(* Claims about a race and the provider array (SpecRegistry)               *)
(***************************************************************************)

\* The value the promise of invoke(provider) settles to.
SettledValue(provider) ==
  IF provider.outcome = "resolveDatatip" THEN RaceValue(provider) ELSE Null

RegistryMutation == raceProviders' # raceProviders /\ racePc # "idle"

\* C14: a race that has started is unaffected by providers being added to or
\* removed from the array it was called with: such a step changes neither the
\* providers it invoked nor its promises, position or result, every promise
\* settles to the value of the provider invoked for it, and the result is the
\* first non-null value in the order of invocation.
C14_StartedRaceIgnoresRegistry ==
  [][/\ RegistryMutation =>
          UNCHANGED <<racePc, raceInvoked, racePromises, raceIndex,
                      raceResult, raceLog>>
     /\ racePc' # "idle" =>
          /\ Len(racePromises') = Len(raceInvoked')
          /\ \A k \in 1..Len(raceInvoked') :
                racePromises'[k] \in {Pending, SettledValue(raceInvoked'[k])}
     /\ racePc' = "done" /\ raceInvoked' # <<>> =>
          raceResult' = FirstResolving(raceInvoked')
     /\ racePc # "idle" => raceInvoked' = raceInvoked]_vars

\* A race has returned the datatip of a provider that was removed from the
\* array while its invocation was pending, and another provider has taken
\* its place in the array.
C14_Witness ==
  /\ racePc = "done"
  /\ raceResult # Null
  /\ raceProviders # <<>>
  /\ \A k \in 1..Len(raceProviders) :
        raceProviders[k].index # raceResult.provider.index
  /\ raceProviders[1].outcome = "resolveNull"
  /\ raceInvoked[1] = raceResult.provider


\* Provider A of the spec's scenario, and provider B.
IsProviderA(provider) ==
  /\ provider.inclusionPriority = 10 /\ provider.validForScope
  /\ provider.outcome = "resolveDatatip"

IsProviderB(provider) ==
  /\ provider.inclusionPriority = 5 /\ provider.validForScope
  /\ provider.outcome = "resolveDatatip"

\* C21: a race invokes no provider that has been removed from the array
\* before it started; a race over an array that holds A (priority 10) and B
\* (priority 5) returns A's result, and a race over the array that holds B
\* alone, A having been removed, returns B's result.
C21_RemovedProviderLeavesRace ==
  [][/\ racePc = "idle" /\ racePc' # "idle" =>
          {raceInvoked'[k] : k \in 1..Len(raceInvoked')}
            \subseteq {raceProviders[k] : k \in 1..Len(raceProviders)}
     /\ racePc # "done" /\ racePc' = "done" /\ Len(raceInvoked') = 1
          /\ IsProviderB(raceInvoked'[1]) =>
          raceResult' = RaceValue(raceInvoked'[1])
     /\ racePc # "done" /\ racePc' = "done" /\ Len(raceInvoked') = 2 =>
          \A a, b \in 1..2 :
            IsProviderA(raceInvoked'[a]) /\ IsProviderB(raceInvoked'[b]) =>
              raceResult' = RaceValue(raceInvoked'[a])]_vars

(***************************************************************************)
(* Claims about the session (Spec)                                         *)
(***************************************************************************)
\* A step in which a suspended fetch completed.
FetchCompleted == Len(inflight') < Len(inflight)

\* A step that started a fetch at the cursor position.
StartedFetchAtCursor ==
  /\ Len(inflight') = Len(inflight) + 1
  /\ inflight'[Len(inflight')].kind = "cursorScreen"
  /\ inflight'[Len(inflight')].position = cursor
  /\ session'._datatipState = "FETCHING"
  /\ session'._lastFetchedFromCursorPosition

\* C2 (as stated): the overlay marker is mounted exactly when the session
\* state is VISIBLE.
C2_MarkerIffVisible ==
  (session._marker # Null) <=> (session._datatipState = "VISIBLE")

\* C2 (amended): while the session state is HIDDEN no overlay marker is
\* mounted and no range is kept; a marker exists only in the states VISIBLE
\* and FETCHING.
C2_HiddenHasNoMarker ==
  session._datatipState = "HIDDEN" => session._marker = Null /\ session._range = Null

\* C2 witness: a tooltip that was mounted and interacted with is hidden.
C2_Witness ==
  /\ session._datatipState = "HIDDEN"
  /\ session._interactedWith
  /\ session._marker = Null

\* C3: while a live pinned tip reports isHovering() = true, no fetch
\* completion leaves the session VISIBLE.
C3_NoShowUnderPinnedTip ==
  [][(FetchCompleted /\ \E id \in PinnedIds :
                          pinnedTips[id].live /\ pinnedTips[id].hovering)
       => session'._datatipState # "VISIBLE"]_vars

\* C4: the completion of a fetch that finds the session in a state other
\* than FETCHING mounts no overlay and does not make the session VISIBLE.
C4_LateResultDiscarded ==
  [][(FetchCompleted /\ session._datatipState # "FETCHING")
       => /\ session'._datatipState # "VISIBLE"
          /\ session'._marker = Null]_vars

\* C5: once dispose() has run the session is HIDDEN with no overlay mounted,
\* whatever completes or expires afterwards.
C5_DisposedStaysHidden ==
  disposed => /\ session._datatipState = "HIDDEN"
              /\ session._marker = Null

\* The events whose handler is a plain call of _hideOrCancel.
HideOrCancelEvent ==
  \/ MouseDown
  \/ KeyDown("a")
  \/ ToggleDatatip("keyup", TRUE)

\* C9 (as stated): _hideOrCancel on a HIDDEN session changes no session
\* field.
C9_HideOrCancelNoOp ==
  [][(HideOrCancelEvent /\ session._datatipState = "HIDDEN")
       => session' = session]_vars

\* C9 (amended): _hideOrCancel on a HIDDEN session changes no session field
\* but the blacklisted position, which becomes the buffer position of the
\* last mouse move (none when the pointer has none); no fetch is started or
\* dropped.
C9_HideOrCancelOnlyBlacklists ==
  [][(HideOrCancelEvent /\ session._datatipState = "HIDDEN")
       => /\ session' = [session EXCEPT !._blacklistedPosition =
                           getBufferPosition(session._lastMoveEvent)]
          /\ inflight' = inflight
          /\ promises' = promises]_vars

\* C9 witness: a HIDDEN session holding a blacklisted position (setting the
\* state to HIDDEN clears it, so _hideOrCancel ran while HIDDEN).
C9_Witness ==
  /\ session._datatipState = "HIDDEN"
  /\ session._blacklistedPosition # Null

\* C10: the toggle command on the active editor starts a fetch at the
\* cursor position when it comes from a keydown more than 100ms after the
\* last hide, in every state, and when it comes from a non-keyboard event
\* while HIDDEN; a non-keyboard event in another state requests hide/cancel
\* (VISIBLE becomes HIDDEN, FETCHING records the blacklisted position).
C10_ToggleCommand ==
  [][/\ (ToggleDatatip("keydown", TRUE) /\ now - session._lastHiddenTime > 100)
          => StartedFetchAtCursor
     /\ (ToggleDatatip("none", TRUE) /\ session._datatipState = "HIDDEN")
          => StartedFetchAtCursor
     /\ (ToggleDatatip("none", TRUE) /\ session._datatipState = "VISIBLE")
          => /\ session'._datatipState = "HIDDEN"
             /\ session'._marker = Null
             /\ inflight' = inflight
     /\ (ToggleDatatip("none", TRUE) /\ session._datatipState = "FETCHING")
          => /\ session'._datatipState = "FETCHING"
             /\ session'._blacklistedPosition =
                  getBufferPosition(session._lastMoveEvent)
             /\ inflight' = inflight]_vars

\* C10 witness: a fetch at the cursor started over a mounted tooltip, which
\* only a forcing keydown does (a non-keyboard toggle would have hidden it).
C10_Witness ==
  /\ session._datatipState = "FETCHING"
  /\ session._marker # Null
  /\ inflight # <<>>
  /\ inflight[Len(inflight)].kind = "cursorScreen"
  /\ inflight[Len(inflight)].position = cursor

(***************************************************************************)
(* Claims about the fetch debounce (SpecBurst)                             *)
(***************************************************************************)
\* C6 (as stated): a burst of mouse moves received from HIDDEN, each less
\* than the fetch debounce delay after the one before, starts exactly one
\* fetch, one delay after the last move and for the position of that move.
C6_BurstStartsOneFetch ==
  burst # Null =>
    LET due == burst.lastAt + FetchDelay
    IN IF now < due THEN burst.fetches = 0
       ELSE IF burst.fetches = 0
         THEN /\ now = due
              /\ session._startFetchingDebounce.timeout = [at |-> due]
       ELSE /\ burst.fetches = 1
            /\ burst.fetchAt = due
            /\ burst.fetchPosition = getBufferPosition(burst.lastEvent)

\* C6 (amended): when the last move of such a burst is not the first move
\* after a focus event (which the handler drops), the burst leaves the fetch
\* timer due one delay after that move; if the move has a buffer position
\* exactly one fetch starts, at that time and for that position, and if it
\* has none (pointer beside the text) no fetch starts.
C6_BurstStartsOneFetchForLastMove ==
  burst # Null /\ ~burst.lastDropped =>
    LET due == burst.lastAt + FetchDelay
        position == getBufferPosition(burst.lastEvent)
        timer == session._startFetchingDebounce.timeout
    IN IF now < due
         THEN burst.fetches = 0 /\ timer = [at |-> due]
       ELSE IF burst.fetches = 0 /\ timer # Null
         THEN now = due /\ timer = [at |-> due]
       ELSE IF position = Null
         THEN burst.fetches = 0
       ELSE /\ burst.fetches = 1
            /\ burst.fetchAt = due
            /\ burst.fetchPosition = position

\* C6 witness: a burst of moves at different times over different
\* positions has started its fetch.
C6_Witness ==
  /\ burst # Null
  /\ burst.moves >= 2
  /\ burst.firstAt < burst.lastAt
  /\ getBufferPosition(burst.firstEvent) # getBufferPosition(burst.lastEvent)
  /\ ~burst.lastDropped
  /\ burst.fetches = 1
  /\ burst.fetchPosition = getBufferPosition(burst.lastEvent)

(***************************************************************************)
(* Claims about hiding on leaving the range (SpecHide)                     *)
(***************************************************************************)
\* A step of the mousemove handler.
MouseMoveEvent(e) == \E keys \in SUBSET ModifierKeys : MouseMove(e, keys)

\* The pointer is where _hideIfOutsideImmediate hides the tooltip: not in
\* the tooltip element and not at a position of the range.
PointerOutside ==
  /\ ~session._insideDatatip
  /\ LET position == getBufferPosition(session._lastMoveEvent)
     IN \/ position = Null
        \/ session._range = Null
        \/ ~containsPoint(session._range, position)

C11_KeydownAt50msForcesShow ==
  [][(ToggleDatatip("keydown", TRUE) /\ now - session._lastHiddenTime = 50)
       => StartedFetchAtCursor]_vars

\* C11 (amended): a toggle command delivered by a keydown at most 100ms
\* after the last hide (50ms after it, for one) is ignored in every state:
\* it starts no fetch and changes no session field.
C11_KeydownWithin100msIsIgnored ==
  [][(ToggleDatatip("keydown", TRUE) /\ now - session._lastHiddenTime <= 100)
       => /\ session' = session
          /\ inflight' = inflight
          /\ promises' = promises]_vars

\* C11 witness: the last event was a keydown toggle 50ms after a hide, and
\* it started no fetch.
C11_Witness ==
  /\ toggled # Null
  /\ toggled.last = "toggle"
  /\ toggled.eventType = "keydown"
  /\ toggled.sinceHide = 50
  /\ ~toggled.started
  /\ session._lastHiddenTime = now - 50

\* C12: a toggle command delivered by a key-up leaves no tooltip mounted,
\* and no fetch that was in flight when it arrived brings the session to
\* VISIBLE afterwards.
C12_KeyupForceHides ==
  [][/\ ToggleDatatip("keyup", TRUE) => session'._marker = Null
     /\ \A i \in 1..MaxInFlight, plainResult \in LookupResults("plain"),
           modifierResult \in LookupResults("modifier") :
          (/\ toggled # Null
           /\ i <= toggled.keyupPending
           /\ FetchComplete(i, plainResult, modifierResult))
            => session'._datatipState # "VISIBLE"]_vars

\* The range of the data the completion of a fetch hands to _startFetching
\* contains the point.
DataContains(plainResult, modifierResult, point) ==
  LET data == _fetchAndRenderEnd(plainResult, modifierResult)
  IN /\ data # Null
     /\ point # Null
     /\ containsPoint(data.range, point)

\* Hide/cancel while HIDDEN or FETCHING records the pointer position, and
\* every step that sets a session that was not HIDDEN to HIDDEN clears it.
BlacklistRecordedAndCleared ==
  /\ (HideOrCancelEvent /\ session._datatipState \in {"HIDDEN", "FETCHING"})
       => session'._blacklistedPosition =
            getBufferPosition(session._lastMoveEvent)
  /\ (session._datatipState # "HIDDEN" /\ session'._datatipState = "HIDDEN")
       => session'._blacklistedPosition = Null

\* C13 (as stated): hide/cancel while HIDDEN or FETCHING records the
\* pointer position as blacklisted, a fetch in flight at that moment never
\* brings the session to VISIBLE when its range contains the recorded
\* position, and setting the session to HIDDEN clears the position.
C13_BlacklistSuppressesInFlight ==
  [][/\ BlacklistRecordedAndCleared
     /\ \A i \in 1..MaxInFlight, plainResult \in LookupResults("plain"),
           modifierResult \in LookupResults("modifier") :
          (/\ toggled # Null
           /\ toggled.request # Null
           /\ i <= toggled.request.pending
           /\ DataContains(plainResult, modifierResult,
                           toggled.request.position)
           /\ FetchComplete(i, plainResult, modifierResult))
            => session'._datatipState # "VISIBLE"]_vars

\* C13 (amended): hide/cancel while HIDDEN or FETCHING records the pointer
\* position as blacklisted, replacing the one recorded before; setting the
\* session to HIDDEN clears it; a fetch that completes while the session is
\* FETCHING and a blacklisted position is recorded sets the session to
\* HIDDEN, with no overlay, when its range contains that position.
C13_BlacklistSuppressesWhileRecorded ==
  [][/\ BlacklistRecordedAndCleared
     /\ \A i \in 1..MaxInFlight, plainResult \in LookupResults("plain"),
           modifierResult \in LookupResults("modifier") :
          (/\ session._datatipState = "FETCHING"
           /\ DataContains(plainResult, modifierResult,
                           session._blacklistedPosition)
           /\ FetchComplete(i, plainResult, modifierResult))
            => /\ session'._datatipState = "HIDDEN"
               /\ session'._marker = Null
               /\ session'._blacklistedPosition = Null]_vars

\* C13 witness: a fetch started at the cursor has completed with a range
\* that contains the cursor and the position blacklisted while it was in
\* flight, and the session is HIDDEN.
C13_Witness ==
  /\ toggled # Null
  /\ toggled.last = "fetchComplete"
  /\ toggled.request # Null
  /\ toggled.request.position # Null
  /\ session._lastFetchedFromCursorPosition
  /\ session._lastPosition = cursor
  /\ inflight = <<>>
  /\ promises[session._lastDatatipAndProviderPromise] \in
       LookupResults("plain") \ {Null}
  /\ LET range == promises[session._lastDatatipAndProviderPromise].datatip.range
     IN /\ containsPoint(range, cursor)
        /\ containsPoint(range, toggled.request.position)
  /\ session._datatipState = "HIDDEN"

(***************************************************************************)
(* Claims about the DatatipManager (SpecManager, SpecSessions)             *)
(***************************************************************************)
SessionDisposed(e) == managers[e] # Null /\ observed.disposeCalls[e] >= 1

\* C18: while the DatatipManager has not been disposed the map holds a
\* session, not disposed, for exactly the open editors; the session of a
\* destroyed editor has been disposed and has no entry; once the manager is
\* disposed the map is empty and every session made has been disposed.
C18_OneSessionPerOpenEditor ==
  /\ ~_subscriptions.disposed =>
       /\ _editorManagers = {e \in Editors : editorState[e] = "open"}
       /\ \A e \in _editorManagers :
             managers[e] # Null /\ observed.disposeCalls[e] = 0
  /\ \A e \in Editors :
       editorState[e] = "destroyed" =>
         e \notin _editorManagers /\ (managers[e] # Null => SessionDisposed(e))
  /\ _subscriptions.disposed =>
       /\ _editorManagers = {}
       /\ \A e \in Editors : managers[e] # Null => SessionDisposed(e)

\* The manager has been disposed with one editor still open and another
\* destroyed before; both had a session.
C18_Witness ==
  /\ _subscriptions.disposed
  /\ _editorManagers = {}
  /\ \E e1, e2 \in Editors :
       /\ editorState[e1] = "open" /\ SessionDisposed(e1)
       /\ editorState[e2] = "destroyed" /\ SessionDisposed(e2)

\* The manager has a session for the editor: it was opened before the
\* manager was disposed and has not been destroyed.
HasSession(e) ==
  managers[e] # Null /\ editorState[e] = "open" /\ ~_subscriptions.disposed

\* C19: DatatipManager.createPinnedDataTip throws and makes no pinned tip
\* for an editor the manager has no session for, and returns a new pinned
\* tip for an editor with a session.
C19_PinnedTipNeedsSession ==
  [][\A e \in Editors :
       ManagerCreatePinnedDataTip(e) =>
         IF HasSession(e)
           THEN /\ observed'.pinned = [editor |-> e, outcome |-> "returned"]
                /\ observed'.tips =
                     [observed.tips EXCEPT ![e] = @ + 1]
           ELSE /\ observed'.pinned = [editor |-> e, outcome |-> "threw"]
                /\ observed'.tips = observed.tips]_vars

\* The call has thrown for a destroyed editor whose session had returned a
\* pinned tip before.
C19_Witness ==
  /\ observed.pinned # Null
  /\ observed.pinned.outcome = "threw"
  /\ editorState[observed.pinned.editor] = "destroyed"
  /\ observed.tips[observed.pinned.editor] >= 1

ApplicableIn(providers) ==
  {providers[k] : k \in {j \in 1..Len(providers) : Applicable(providers[j])}}

InvokedIn(invoked) == {invoked[k] : k \in 1..Len(invoked)}

\* The fetch is for the position of the previous fetch of the session.
AtPreviousPosition(e, position) ==
  /\ observed.fetches[e] # <<>>
  /\ observed.fetches[e][Len(observed.fetches[e])].position = position

LastFetch(e) == observed'.fetches[e][Len(observed'.fetches[e])]

\* C20 as stated: every fetch a session starts invokes every applicable
\* provider of both arrays as they are then, also a fetch for the position
\* of the previous fetch of the session.
C20_EveryFetchConsultsProviders ==
  [][\A e \in Editors, position \in Points :
       ManagerFetch(e, position) =>
         /\ ApplicableIn(_modifierDatatipProviders)
              \subseteq InvokedIn(LastFetch(e).modifier)
         /\ ApplicableIn(_datatipProviders)
              \subseteq InvokedIn(LastFetch(e).plain)]_vars

\* C20 amended: every fetch a session starts invokes every applicable
\* modifier provider, and every applicable plain provider unless the fetch
\* is for the position of the previous fetch of the session.
C20_FetchConsultsProvidersUnlessCached ==
  [][\A e \in Editors, position \in Points :
       ManagerFetch(e, position) =>
         /\ ApplicableIn(_modifierDatatipProviders)
              \subseteq InvokedIn(LastFetch(e).modifier)
         /\ ~AtPreviousPosition(e, position) =>
              ApplicableIn(_datatipProviders)
                \subseteq InvokedIn(LastFetch(e).plain)]_vars

\* The second fetch of a session, for another position than the first, has
\* invoked an applicable plain provider and an applicable modifier provider
\* that were added after the first.
C20_Witness ==
  \E e \in Editors :
    /\ Len(observed.fetches[e]) = 2
    /\ observed.fetches[e][1].position # observed.fetches[e][2].position
    /\ ApplicableIn(observed.fetches[e][2].plain)
         \ InvokedIn(observed.fetches[e][1].plain) # {}
    /\ ApplicableIn(observed.fetches[e][2].modifier)
         \ InvokedIn(observed.fetches[e][1].modifier) # {}


\* The sessions other than that of editor e are as they were.
OtherSessionsUnchanged(e) ==
  \A other \in Editors \ {e} : managers'[other] = managers[other]

\* C22: a fetch start, a blur or a fetch completion of the session of one
\* editor leaves the session of every other editor as it was, and a dispatch
\* of the toggle command changes at most the session of the active editor.
C22_SessionsAreIsolated ==
  [][/\ \A e \in Editors, position \in Points :
          ManagerFetch(e, position) => OtherSessionsUnchanged(e)
     /\ \A e \in Editors :
          ManagerBlur(e) => OtherSessionsUnchanged(e)
     /\ \A e \in Editors, i \in 1..(MaxInFlight + 1) :
          ManagerFetchComplete(e, i) => OtherSessionsUnchanged(e)
     /\ \A active \in Editors, eventType \in {"keydown", "keyup", "none"} :
          ManagerToggle(active, eventType) => OtherSessionsUnchanged(active)
    ]_vars

\* With two editors open, each with a session, a toggle command has started
\* a fetch in the session of one and the other is still as it was made.
C22_Witness ==
  \E e1, e2 \in _editorManagers :
    /\ e1 # e2
    /\ managers[e1].s._datatipState = "FETCHING"
    /\ managers[e1].s._lastFetchedFromCursorPosition
    /\ managers[e2].s = NewSession


(***************************************************************************)
(* Claims about the overlay under single events (SpecOverlay)              *)
(***************************************************************************)
LastWas(event) == lastEvent # Null /\ lastEvent.event = event

\* C23: a scroll that meets the session VISIBLE leaves it HIDDEN with the
\* overlay unmounted and no hide timer started, whether or not the tooltip
\* has been interacted with or the pointer is inside it.
C23_ScrollHidesAtOnce ==
  (LastWas("scroll") /\ lastEvent.before.s._datatipState = "VISIBLE")
    => /\ session._datatipState = "HIDDEN"
       /\ session._marker = Null
       /\ session._range = Null
       /\ session._hideIfOutsideDebounce = lastEvent.before.s._hideIfOutsideDebounce

\* A scroll has met a tooltip that was interacted with, with the pointer
\* inside it.
C23_Witness ==
  /\ LastWas("scroll")
  /\ lastEvent.before.s._datatipState = "VISIBLE"
  /\ lastEvent.before.s._marker # Null
  /\ lastEvent.before.s._interactedWith
  /\ lastEvent.before.s._insideDatatip


\* C24: a blur that meets the session VISIBLE with the pointer outside the
\* tooltip leaves it HIDDEN with the overlay unmounted; with the pointer
\* inside the tooltip it leaves the session as it was.
C24_BlurHidesUnlessInside ==
  (LastWas("blur") /\ lastEvent.before.s._datatipState = "VISIBLE")
    => IF lastEvent.before.s._insideDatatip
         THEN session = lastEvent.before.s
         ELSE /\ session._datatipState = "HIDDEN"
              /\ session._marker = Null
              /\ session._range = Null

\* A blur has met a shown tooltip with the pointer inside it.
C24_Witness ==
  /\ LastWas("blur")
  /\ lastEvent.before.s._datatipState = "VISIBLE"
  /\ lastEvent.before.s._marker # Null
  /\ lastEvent.before.s._insideDatatip
  /\ session._marker # Null


\* The data _fetchAndRender returned in the last fetch completion.
LastData ==
  _fetchAndRenderEnd(lastEvent.arg.plainResult, lastEvent.arg.modifierResult)

\* C25: the data of a fetch combine the results of the two races: both
\* datatips, the plain one first, under the range of the plain one when both
\* races returned one; the one datatip under its range when one race did; no
\* data, and the session HIDDEN, when neither did.  A tooltip shown by the
\* fetch has the range of the data.
C25_FetchCombinesBothRaces ==
  LastWas("fetchComplete") =>
    LET plainResult == lastEvent.arg.plainResult
        modifierResult == lastEvent.arg.modifierResult
    IN /\ (plainResult # Null /\ modifierResult # Null) =>
            /\ LastData.renderedProviders = <<"plain", "modifier">>
            /\ LastData.range = plainResult.datatip.range
       /\ (plainResult # Null /\ modifierResult = Null) =>
            /\ LastData.renderedProviders = <<"plain">>
            /\ LastData.range = plainResult.datatip.range
       /\ (plainResult = Null /\ modifierResult # Null) =>
            /\ LastData.renderedProviders = <<"modifier">>
            /\ LastData.range = modifierResult.datatip.range
       /\ (plainResult = Null /\ modifierResult = Null) =>
            /\ LastData = Null
            /\ session._datatipState = "HIDDEN"
            /\ session._marker = Null
       /\ session._datatipState = "VISIBLE" =>
            /\ LastData # Null
            /\ session._range = LastData.range
            /\ session._marker = mountDatatipWithMarker(LastData)

\* A fetch whose two races returned datatips of different ranges has shown
\* the tooltip under the range of the plain one.
C25_Witness ==
  /\ LastWas("fetchComplete")
  /\ lastEvent.arg.plainResult # Null
  /\ lastEvent.arg.modifierResult # Null
  /\ lastEvent.arg.plainResult.datatip.range
       # lastEvent.arg.modifierResult.datatip.range
  /\ session._datatipState = "VISIBLE"
  /\ session._range = lastEvent.arg.plainResult.datatip.range


(***************************************************************************)
(* Claims about the position cache (SpecManager)                           *)
(***************************************************************************)
\* The fetch the session of editor e has started in this step.
StartedFetch(e) == managers'[e].inflight[Len(managers'[e].inflight)]

\* C26: a fetch for the position of the previous fetch of the session
\* invokes no plain provider and waits for the lookup the session holds,
\* pending or completed, which stays as it is; a fetch for another position
\* invokes the plain providers anew, for a lookup no earlier fetch waits
\* for, and the session holds that position and that lookup afterwards.
\* Either fetch invokes the modifier providers.
C26_PositionCacheReusesPlainLookup ==
  [][\A e \in Editors, position \in Points :
       ManagerFetch(e, position) =>
         LET before == managers[e]
             after == managers'[e]
             held == before.s._lastDatatipAndProviderPromise
         IN /\ LastFetch(e).modifier = InvokedBy(_modifierDatatipProviders)
            /\ after.s._lastPosition = position
            /\ StartedFetch(e).promise = after.s._lastDatatipAndProviderPromise
            /\ IF AtPreviousPosition(e, position)
                 THEN /\ LastFetch(e).plain = <<>>
                      /\ StartedFetch(e).promise = held
                      /\ before.promises[held] \in {Pending, Null}
                      /\ after.promises[held] = before.promises[held]
                 ELSE /\ LastFetch(e).plain = InvokedBy(_datatipProviders)
                      /\ after.promises[StartedFetch(e).promise] = Pending
                      /\ \A i \in 1..Len(before.inflight) :
                           before.inflight[i].promise
                             # StartedFetch(e).promise]_vars

\* The second fetch of a session, for the position of the first, has invoked
\* modifier providers and no plain provider, the first having invoked plain
\* providers.
C26_Witness ==
  \E e \in Editors :
    /\ Len(observed.fetches[e]) = 2
    /\ observed.fetches[e][1].position = observed.fetches[e][2].position
    /\ observed.fetches[e][1].plain # <<>>
    /\ observed.fetches[e][2].plain = <<>>
    /\ observed.fetches[e][2].modifier # <<>>
    /\ Len(managers[e].inflight) = 2
    /\ managers[e].inflight[1].promise = managers[e].inflight[2].promise


(***************************************************************************)
(* Claims about key events (SpecKeys)                                      *)
(***************************************************************************)
\* The last event was the press or the release of a modifier key.
LastWasModifierKey ==
  /\ lastEvent # Null
  /\ lastEvent.event \in {"keydown", "keyup"}
  /\ lastEvent.arg.key \in ModifierKeys

\* The held keys after the last key event.
UpdatedHeldKeys ==
  IF lastEvent.event = "keydown"
    THEN lastEvent.before.s._heldKeys \cup {lastEvent.arg.key}
    ELSE lastEvent.before.s._heldKeys \ {lastEvent.arg.key}

\* The position a key press fetch is for: the cursor of the editor when the
\* toggle command started a fetch and no mouse move arrived since, the
\* position of the last recorded mouse move otherwise (null when there is
\* none or the pointer is off the text).
KeyPressPosition ==
  IF lastEvent.before.s._lastFetchedFromCursorPosition
    THEN lastEvent.before.cursor
    ELSE getBufferPosition(lastEvent.before.s._lastMoveEvent)

\* The last event has started one fetch, for the position.
StartedFetchAt(position) ==
  /\ Len(inflight) = Len(lastEvent.before.inflight) + 1
  /\ SubSeq(inflight, 1, Len(inflight) - 1) = lastEvent.before.inflight
  /\ inflight[Len(inflight)].position = position
  /\ session._datatipState = "FETCHING"

\* The last event has started no fetch.
StartedNoFetch == inflight = lastEvent.before.inflight

\* A modifier key event while HIDDEN starts no fetch, and the press of
\* another key requests hide or cancel.
KeyEventsWithoutFetch ==
  /\ (LastWasModifierKey /\ lastEvent.before.s._datatipState = "HIDDEN") =>
       /\ StartedNoFetch
       /\ session = [lastEvent.before.s EXCEPT !._heldKeys = UpdatedHeldKeys]
  /\ (LastWas("keydown") /\ lastEvent.arg.key \notin ModifierKeys) =>
       /\ StartedNoFetch
       /\ session = _hideOrCancel([s |-> lastEvent.before.s,
                                   inflight |-> lastEvent.before.inflight,
                                   promises |-> promises]).s

\* C27 as stated: a modifier key event while the session is not HIDDEN
\* starts a fetch under the updated held keys, for the cursor position after
\* a toggle fetch with no mouse move since and for the position of the last
\* mouse move otherwise; a modifier key event while HIDDEN starts none, and
\* the press of another key requests hide or cancel.
C27_ModifierKeyRefetches ==
  /\ KeyEventsWithoutFetch
  /\ (LastWasModifierKey /\ lastEvent.before.s._datatipState # "HIDDEN") =>
       /\ session._heldKeys = UpdatedHeldKeys
       /\ StartedFetchAt(KeyPressPosition)

\* C27 amended: the fetch is started when the position is defined; when
\* no mouse move is recorded or the pointer is off the text, the modifier
\* key event starts no fetch and changes the held keys only.
C27_ModifierKeyRefetchesAtKnownPosition ==
  /\ KeyEventsWithoutFetch
  /\ (LastWasModifierKey /\ lastEvent.before.s._datatipState # "HIDDEN") =>
       /\ session._heldKeys = UpdatedHeldKeys
       /\ IF KeyPressPosition # Null
            THEN StartedFetchAt(KeyPressPosition)
            ELSE /\ StartedNoFetch
                 /\ session = [lastEvent.before.s EXCEPT
                                 !._heldKeys = UpdatedHeldKeys]

\* A modifier key pressed after a toggle fetch and a move of the cursor has
\* started a second fetch, for the position the cursor has moved to.
C27_Witness ==
  /\ LastWasModifierKey
  /\ lastEvent.before.s._lastFetchedFromCursorPosition
  /\ Len(lastEvent.before.inflight) = 1
  /\ lastEvent.before.inflight[1].position # cursor
  /\ StartedFetchAt(cursor)
  /\ "alt" \in session._heldKeys


(***************************************************************************)
(* Claims about pinned tips (SpecPin)                                      *)
(***************************************************************************)
\* C28: a click on the pin action of the visible tooltip leaves the session
\* HIDDEN with the overlay unmounted and one more pinned tip in its set;
\* the disposal of a pinned tip removes that tip from the set, and no
\* other step changes the set.
C28_PinnedTipOutlivesHover ==
  [][/\ (session._datatipState = "VISIBLE" /\ PinClick) =>
          /\ session'._datatipState = "HIDDEN"
          /\ session'._marker = Null
          /\ \E id \in PinnedIds \ session._pinnedDatatips :
               session'._pinnedDatatips = session._pinnedDatatips \cup {id}
     /\ \A id \in PinnedIds :
          PinnedDispose(id) =>
            session'._pinnedDatatips = session._pinnedDatatips \ {id}
     /\ (~PinClick /\ ~\E id \in PinnedIds : PinnedDispose(id)) =>
          session'._pinnedDatatips = session._pinnedDatatips]_vars

\* The tooltip is visible again while the tip pinned from an earlier one is
\* in the set of the session.
C28_Witness ==
  /\ session._datatipState = "VISIBLE"
  /\ session._marker # Null
  /\ \E id \in session._pinnedDatatips : pinnedTips[id].live


(***************************************************************************)
(* Claims about the end of fetches (SpecSettle)                            *)
(***************************************************************************)
\* C29: a session that is FETCHING leaves FETCHING once the races of its
\* suspended fetches have settled, whatever datatips they return.
C29_FetchingIsLeft ==
  (session._datatipState = "FETCHING") ~> (session._datatipState # "FETCHING")


(***************************************************************************)
(* Claims about fetches in flight together (SpecStale)                     *)
(***************************************************************************)
\* The last two fetches that resumed were suspended together, both resumed
\* with data, and the second of them has just resumed.
BothResolvedWithData ==
  /\ resolved.last = "complete"
  /\ Len(resolved.log) = 2
  /\ resolved.log[2].serial \in resolved.log[1].suspended
  /\ resolved.log[1].data # Null
  /\ resolved.log[2].data # Null

\* Of the last two fetches that resumed, the one that was started last.
StartedLast ==
  IF resolved.log[1].serial > resolved.log[2].serial
    THEN resolved.log[1]
    ELSE resolved.log[2]

\* C30: the tooltip shown once two fetches that were in flight together
\* have both resumed with data is that of the fetch started last.
C30_LastStartedFetchIsShown ==
  (BothResolvedWithData /\ session._datatipState = "VISIBLE") =>
    /\ session._range = StartedLast.data.range
    /\ session._marker = mountDatatipWithMarker(StartedLast.data)


(***************************************************************************)
(* Claims about changes of the settings (SpecConfig)                       *)
(***************************************************************************)
\* C31: a burst of mouse moves from HIDDEN starts at most one fetch, also
\* with a change of the fetch debounce delay while a timer of the burst is
\* pending.
C31_ConfigChangeStartsNoExtraFetch == Len(inflight) <= 1


(***************************************************************************)
(* Claims about the diagnostics shortcuts (SpecShortcuts)                  *)
(***************************************************************************)
\* The step is one of the six commands; every other step of SpecShortcuts
\* is a diagnostics update.
IsCommand ==
  \/ GoToFirst \/ GoToLast \/ GoToNext \/ GoToPrevious
  \/ GoToNextTrace \/ GoToPreviousTrace

\* C32: the index is unset or an index of the list of file diagnostics; a
\* set trace index is that of a trace of the current diagnostic with a file
\* path and a range; go-to-next at the last diagnostic and go-to-previous at
\* the first leave the index where it is; every diagnostics update unsets
\* the index and the trace index.
C32_IndexStaysInList ==
  [][/\ shortcuts'._index = NoIndex
          \/ shortcuts'._index \in 0..(Len(shortcuts'._diagnostics) - 1)
     /\ shortcuts'._traceIndex # NoIndex =>
          /\ shortcuts'._index # NoIndex
          /\ currentTraces(shortcuts') # Null
          /\ shortcuts'._traceIndex
               \in 0..(Len(currentTraces(shortcuts').list) - 1)
          /\ LET trace == currentTraces(shortcuts').list[
                            shortcuts'._traceIndex + 1]
             IN trace.filePath /\ trace.range
     /\ (GoToNext /\ shortcuts._index = Len(shortcuts._diagnostics) - 1
           /\ shortcuts._index # NoIndex) =>
          shortcuts'._index = shortcuts._index
     /\ (GoToPrevious /\ shortcuts._index = 0) =>
          shortcuts'._index = 0
     /\ ~IsCommand =>
          /\ shortcuts'._index = NoIndex
          /\ shortcuts'._traceIndex = NoIndex
          /\ \A i \in 1..Len(shortcuts'._diagnostics) :
               shortcuts'._diagnostics[i].scope = "file"]_vars

\* The trace index is that of the second trace of the second of two
\* diagnostics, the first trace having no range.
C32_Witness ==
  /\ Len(shortcuts._diagnostics) = 2
  /\ shortcuts._index = 1
  /\ shortcuts._traceIndex = 1
  /\ ~shortcuts._diagnostics[2].trace.list[1].range


(***************************************************************************)
(* Claims about the diagnostics Activation (SpecActivation)                *)
(***************************************************************************)
\* The disposables whose teardown has not run yet.
LiveTeardowns(a) ==
  {h \in 1..Len(a.disposables) :
     a.disposables[h].teardown /\ a.disposables[h].calls = 0}

\* C33: at most one updater is current: a consumeDiagnosticUpdates call
\* made while an updater is current leaves it current and returns a
\* disposable whose disposal changes nothing; the first disposal of the
\* disposable returned for the current updater sets the current updater to
\* none; the assertion of that disposal never fails, and at any time the
\* only disposable whose teardown is still to run is that of the current
\* updater.
C33_OneCurrentUpdater ==
  [][/\ ~activation'.threw
     /\ IF activation'._diagnosticUpdaters = Null
          THEN LiveTeardowns(activation') = {}
          ELSE \E h \in 1..Len(activation'.disposables) :
                 /\ LiveTeardowns(activation') = {h}
                 /\ activation'.disposables[h].updater
                      = activation'._diagnosticUpdaters
     /\ \A diagnosticUpdater \in Updaters :
          (ConsumeDiagnosticUpdates(diagnosticUpdater)
             /\ activation._diagnosticUpdaters # Null) =>
            /\ activation'._diagnosticUpdaters
                 = activation._diagnosticUpdaters
            /\ ~activation'.disposables[Len(activation'.disposables)]
                  .teardown
     /\ \A h \in 1..Len(activation.disposables) :
          DisposeDisposable(h) =>
            IF h \in LiveTeardowns(activation)
              THEN /\ activation._diagnosticUpdaters
                        = activation.disposables[h].updater
                   /\ activation'._diagnosticUpdaters = Null
              ELSE activation'._diagnosticUpdaters
                     = activation._diagnosticUpdaters]_vars

\* A disposable of one updater was disposed twice, a disposable returned
\* while an updater was current was disposed, and another updater is
\* current with its disposable not yet disposed.
C33_Witness ==
  \E a, b, c \in 1..Len(activation.disposables) :
    /\ activation.disposables[a].teardown
    /\ activation.disposables[a].calls = 2
    /\ ~activation.disposables[b].teardown
    /\ activation.disposables[b].calls = 1
    /\ LiveTeardowns(activation) = {c}
    /\ activation._diagnosticUpdaters = activation.disposables[c].updater
    /\ activation.disposables[c].updater # activation.disposables[a].updater
====
